---- MODULE Spec2Model ----
(***************************************************************************)
(* A model of the file connector (fileconnector.py): the record            *)
(* normaliser, the tag matcher, the folder path generator, the             *)
(* reconciliation (_partition_hosts) and the batch applier                 *)
(* (_update_config, Chunker).                                              *)
(*                                                                         *)
(* Python strings are TLA+ strings, taken apart character by character     *)
(* with Len, SubSeq and \o.  A Python dict whose iteration order can be    *)
(* observed (an imported record, the tag catalogue) is a sequence of       *)
(* <<key, value>> pairs with distinct keys, in insertion order; every      *)
(* other dict is a function.  Python's None is the string None below       *)
(* where it is compared with strings.                                      *)
(***************************************************************************)
EXTENDS Integers, Sequences, FiniteSets, TLC

(***************************************************************************)
(* Strings                                                                 *)
(***************************************************************************)
None == "<None>"

UpperAlphabet == "ABCDEFGHIJKLMNOPQRSTUVWXYZ"
LowerAlphabet == "abcdefghijklmnopqrstuvwxyz"
AlphabetSize == Len(UpperAlphabet)

Char(s, i) == SubSeq(s, i, i)

UpperChars == {Char(UpperAlphabet, i) : i \in 1..AlphabetSize}

LowerTable ==
  [c \in UpperChars |->
     Char(LowerAlphabet, CHOOSE i \in 1..AlphabetSize : Char(UpperAlphabet, i) = c)]

LowerChar(c) == IF c \in UpperChars THEN LowerTable[c] ELSE c

RECURSIVE LowerFrom(_, _)
LowerFrom(s, i) ==
  IF i > Len(s) THEN "" ELSE LowerChar(Char(s, i)) \o LowerFrom(s, i + 1)

\* str.lower(): a string without upper case letters is its own lower case
Lower(s) == IF \A i \in 1..Len(s) : Char(s, i) \notin UpperChars THEN s ELSE LowerFrom(s, 1)

\* str.replace(old, new) for a one-character old
RECURSIVE Replace(_, _, _)
Replace(s, old, new) ==
  IF s = "" THEN ""
  ELSE (IF Char(s, 1) = old THEN new ELSE Char(s, 1)) \o Replace(SubSeq(s, 2, Len(s)), old, new)

\* str.startswith(prefix)
StartsWith(s, prefix) ==
  Len(s) >= Len(prefix) /\ SubSeq(s, 1, Len(prefix)) = prefix

\* The positions at which part occurs in s.
Occurrences(s, part) ==
  {i \in 1..(Len(s) - Len(part) + 1) : SubSeq(s, i, i + Len(part) - 1) = part}

Min(S) == CHOOSE x \in S : \A y \in S : x <= y
Max(S) == CHOOSE x \in S : \A y \in S : x >= y

\* str.split(sep) for a non-empty sep
RECURSIVE Split(_, _)
Split(s, sep) ==
  IF Occurrences(s, sep) = {} THEN <<s>>
  ELSE LET i == Min(Occurrences(s, sep))
       IN <<SubSeq(s, 1, i - 1)>> \o Split(SubSeq(s, i + Len(sep), Len(s)), sep)

\* str.strip() (blanks only)
RECURSIVE LStrip(_)
LStrip(s) == IF s # "" /\ Char(s, 1) = " " THEN LStrip(SubSeq(s, 2, Len(s))) ELSE s

RECURSIVE RStrip(_)
RStrip(s) ==
  IF s # "" /\ Char(s, Len(s)) = " " THEN RStrip(SubSeq(s, 1, Len(s) - 1)) ELSE s

Strip(s) == RStrip(LStrip(s))

\* part in s
Contains(s, part) == Occurrences(s, part) # {}

\* sep.join(parts)
RECURSIVE Join(_, _)
Join(parts, sep) ==
  IF parts = <<>> THEN ""
  ELSE IF Len(parts) = 1 THEN parts[1]
  ELSE parts[1] \o sep \o Join(Tail(parts), sep)

(***************************************************************************)
(* Dicts                                                                   *)
(***************************************************************************)
EmptyDict == [k \in {} |-> ""]

\* dict.update(other)
Update(d, other) ==
  [k \in DOMAIN d \cup DOMAIN other |-> IF k \in DOMAIN other THEN other[k] ELSE d[k]]

\* del d[key] where the key may be missing
Without(d, key) == [k \in DOMAIN d \ {key} |-> d[k]]

\* An insertion-ordered dict: a sequence of <<key, value>> with distinct keys.
Keys(od) == {od[i][1] : i \in 1..Len(od)}

Get(od, key) == od[CHOOSE i \in 1..Len(od) : od[i][1] = key][2]

\* od[key] = value: a new key is appended, a known key keeps its position.
Put(od, key, value) ==
  IF key \in Keys(od)
  THEN [i \in 1..Len(od) |-> IF od[i][1] = key THEN <<key, value>> ELSE od[i]]
  ELSE Append(od, <<key, value>>)

AsFunction(od) == [k \in Keys(od) |-> Get(od, k)]

(***************************************************************************)
(* Record normaliser (module level functions)                              *)
(***************************************************************************)
BUILTIN_ATTRIBUTES == {"locked_by", "labels", "meta_data"}
IP_ATTRIBUTES == {"ipv4", "ip", "ipaddress"}
FOLDER_PLACEHOLDER == "undefined"
PATH_SEPERATOR == "/"

\* A normaliser that lowercases and keeps the spaces.
lowercase_hostname(hostname) == Lower(hostname)

normalize_hostname(hostname) == Replace(Lower(hostname), " ", "_")

is_attribute(string) == StartsWith(Lower(string), "attr_")

is_tag(name) == StartsWith(Lower(name), "tag_")

\* The two groups of re.findall(r"(.*):sep\((.*)\)", key)[0], for a key the
\* pattern matches: both groups are greedy.
SepName(key) ==
  LET closing == Max(Occurrences(key, ")"))
      opening == Max({i \in Occurrences(key, ":sep(") : i + Len(":sep(") <= closing})
  IN SubSeq(key, 1, opening - 1)

SepSeparator(key) ==
  LET closing == Max(Occurrences(key, ")"))
      opening == Max({i \in Occurrences(key, ":sep(") : i + Len(":sep(") <= closing})
  IN SubSeq(key, opening + Len(":sep("), closing - 1)

RECURSIVE PutAll(_, _, _)
PutAll(tmp, keys, value) ==
  IF keys = <<>> THEN tmp ELSE PutAll(Put(tmp, Head(keys), value), Tail(keys), value)

\* The loop of get_host_label that fills tmp, from item i on.
RECURSIVE LabelCandidates(_, _, _, _)
LabelCandidates(host, hostname_field, i, tmp) ==
  IF i > Len(host) THEN tmp
  ELSE LET key == host[i][1]
           value == host[i][2]
           values == Split(value, SepSeparator(key))
       IN LabelCandidates(host, hostname_field, i + 1,
            IF key = hostname_field THEN tmp
            ELSE IF Contains(key, ":sep(")
            THEN PutAll(tmp,
                        [j \in 1..Len(values) |-> Lower(SepName(key) \o "/" \o values[j])],
                        "true")
            ELSE Put(tmp, Lower(key), value))

unlabelify(value) == IF StartsWith(value, "label_") THEN SubSeq(value, 7, Len(value)) ELSE value

IsLabelKey(key) ==
  ~(is_tag(key) \/ key \in IP_ATTRIBUTES \/ is_attribute(key) \/ key \in BUILTIN_ATTRIBUTES)

\* The dict a comprehension builds from its items <<key, value>>: the last
\* item of a key wins.
DictOf(items) ==
  [k \in {items[i][1] : i \in 1..Len(items)} |->
     items[Max({i \in 1..Len(items) : items[i][1] = k})][2]]

get_host_label(host, hostname_field) ==
  LET tmp == LabelCandidates(host, hostname_field, 1, <<>>)
      kept == SelectSeq(tmp, LAMBDA item : IsLabelKey(item[1]))
  IN DictOf([i \in 1..Len(kept) |-> <<unlabelify(kept[i][1]), kept[i][2]>>])

unprefix(value) == SubSeq(value, 6, Len(value))

\* A test that lets the built-in names through.
IsAnyAttribute(key) == is_attribute(key)

IsImportedAttribute(key) == is_attribute(key) /\ unprefix(key) \notin BUILTIN_ATTRIBUTES

get_host_attributes(host) ==
  LET kept == SelectSeq(host, LAMBDA item : IsImportedAttribute(item[1]))
  IN DictOf([i \in 1..Len(kept) |-> <<unprefix(kept[i][1]), kept[i][2]>>])

\* get_ip_address; fieldOrder is the order in which this process iterates
\* over the set IP_ATTRIBUTES.
get_ip_address(host, fieldOrder) ==
  LET present == {i \in 1..Len(fieldOrder) : fieldOrder[i] \in Keys(host)}
  IN IF present = {} THEN None
     ELSE Strip(Split(Get(host, fieldOrder[Min(present)]), ",")[1])

fields_contain_ip_addresses(fields) == \E item \in fields : item \in IP_ATTRIBUTES

\* get_host_tags on an imported record (insertion order kept)
get_host_tags(host) == SelectSeq(host, LAMBDA item : is_tag(item[1]))

\* get_host_tags on the attributes of a remote host
get_api_tags(attributes) == [k \in {a \in DOMAIN attributes : is_tag(a)} |-> attributes[k]]

\* tags_from_cmk is the list of tag groups [id, tags]; the result keeps its order.
create_hostlike_tags(tags_from_cmk) ==
  [i \in 1..Len(tags_from_cmk) |-> <<"tag_" \o tags_from_cmk[i].id, tags_from_cmk[i].tags>>]

(***************************************************************************)
(* TagMatcher                                                              *)
(***************************************************************************)
\* TagMatcher.__init__: self._normalized_names
normalized_names(tags) ==
  DictOf([i \in 1..Len(tags) |-> <<Lower(tags[i][1]), tags[i][1]>>])

\* A matcher that knows the exact spelling only.
get_tag_exact(tags, name) == IF name \in Keys(tags) THEN name ELSE None

\* TagMatcher.get_tag; None stands for the ValueError.
get_tag(tags, name) ==
  IF name \in Keys(tags) THEN name
  ELSE IF Lower(name) \in DOMAIN normalized_names(tags) THEN normalized_names(tags)[Lower(name)]
  ELSE None

\* TagMatcher.is_possible_value (value in values)
is_possible_value(tags, tag, value) ==
  \E i \in 1..Len(Get(tags, get_tag(tags, tag))) : Get(tags, get_tag(tags, tag))[i] = value

(***************************************************************************)
(* Folder path generator                                                   *)
(***************************************************************************)
\* A path that puts the placeholder only where the label is missing.
generate_path_keeping_empty(labels, keys, depth) ==
  IF DOMAIN labels = {} THEN [i \in 1..depth |-> FOLDER_PLACEHOLDER]
  ELSE [i \in 1..Len(keys) |->
          IF keys[i] \in DOMAIN labels THEN labels[keys[i]] ELSE FOLDER_PLACEHOLDER]

generate_path_from_labels(labels, keys, depth) ==
  IF DOMAIN labels = {} THEN [i \in 1..depth |-> FOLDER_PLACEHOLDER]
  ELSE [i \in 1..Len(keys) |->
          IF keys[i] \in DOMAIN labels /\ labels[keys[i]] # "" THEN labels[keys[i]]
          ELSE FOLDER_PLACEHOLDER]

(***************************************************************************)
(* The state                                                               *)
(***************************************************************************)
VARIABLES
  config,                  \* FileConnectorConfig
  remote_hosts,            \* the hosts of the monitoring site
  api_supports_tags,       \* BaseApiClient.api_supports_tags
  ip_order,                \* this process's iteration order of IP_ATTRIBUTES
  cmdb_hosts,              \* phase 1 result: the imported records
  cmk_hosts,               \* get_hosts(): name -> [folder, attributes]
  cmk_tags,                \* [none, tags]: None or create_hostlike_tags
  update_ips,              \* import_contains_ip_addresses
  pc,                      \* position in phase 2
  idx,                     \* position of "for host in cmdb_hosts"
  hosts_managed_by_plugin,
  hosts_to_overtake,
  unrelated_hosts,
  hosts_to_create,
  hosts_to_modify,
  hosts_to_move,
  hosts_to_delete,
  cycle,                   \* number of the synchronisation cycle
  api_client,              \* "http" (HttpApiClient) or "rest" (RestApiClient)
  remote_folders,          \* the folders get_folders() of the site reports
  calls,                   \* the remote calls of the cycle, in order
  returned_values,         \* what the last chunked call returned
  folders,                 \* _wait_for_folders: the folders waited for
  elapsed,                 \* the time since the start of a wait
  log,                     \* messages of the waits and of _activate_changes, step results
  created_host_names,
  modified_host_names,
  deleted_host_names,
  moved_host_names,
  arguments,               \* a function called on its own: its name and fixed arguments
  results                  \* the <<parameter, return value>> of its calls, in order

vars ==
  <<config, remote_hosts, api_supports_tags, ip_order, cmdb_hosts, cmk_hosts, cmk_tags,
    update_ips, pc, idx, hosts_managed_by_plugin, hosts_to_overtake, unrelated_hosts,
    hosts_to_create, hosts_to_modify, hosts_to_move, hosts_to_delete, cycle, api_client,
    remote_folders, calls, returned_values, folders, elapsed, log, created_host_names,
    modified_host_names, deleted_host_names, moved_host_names, arguments, results>>

\* No function is called on its own.
NoArguments == [function |-> "none"]

\* Connector.global_ident(): the identity of this connection
global_ident == "plugin/file1"

\* The hostname field phase 1 detected (JSONImporter.EXPECTED_HOST_NAMES)
hostname_field == "hostname"

(***************************************************************************)
(* _partition_hosts: the helpers                                           *)
(***************************************************************************)
\* pattern.match(string) for a pattern without metacharacters: the filters
\* of the model are literal strings, and re.match anchors at the start only.
Match(pattern, string) == StartsWith(string, pattern)

overtake_host(host_overtake_filters, hostname) ==
  /\ host_overtake_filters # <<>>
  /\ \E i \in 1..Len(host_overtake_filters) : Match(host_overtake_filters[i], hostname)

\* Host filters that let every hostname through.
every_host_matches(host_filters, host) == TRUE

host_matches_filters(host_filters, host) ==
  \/ host_filters = <<>>
  \/ \E i \in 1..Len(host_filters) : Match(host_filters[i], host)

\* host["attributes"].get(key)
AttributeOf(attributes, key) == IF key \in DOMAIN attributes THEN attributes[key] ELSE None

\* "not value" for a string or None
Falsy(value) == value = None \/ value = ""

\* An ownership loop that overtakes on the filter alone, whoever holds the lock.
OwnershipByFilterOnly(host_name, host, host_overtake_filters) ==
  LET locked_by == AttributeOf(host.attributes, "locked_by")
  IN IF locked_by = global_ident THEN "managed"
     ELSE IF overtake_host(host_overtake_filters, host_name) THEN "overtake"
     ELSE "unrelated"

\* The branch the ownership loop takes for one remote host.
Ownership(host_name, host, host_overtake_filters) ==
  LET locked_by == AttributeOf(host.attributes, "locked_by")
  IN IF locked_by = global_ident THEN "managed"
     ELSE IF overtake_host(host_overtake_filters, host_name) /\ Falsy(locked_by) THEN "overtake"
     ELSE "unrelated"

\* Labels that are imported without the label prefix.
add_no_prefix_to_labels(labels, prefix) == labels

add_prefix_to_labels(labels, prefix) ==
  IF Falsy(prefix) THEN labels
  ELSE [k \in {prefix \o key : key \in DOMAIN labels} |->
          labels[SubSeq(k, Len(prefix) + 1, Len(k))]]

needs_modification(old, new) ==
  \E label \in DOMAIN new : label \notin DOMAIN old \/ old[label] # new[label]

\* create_host_tags raises ValueError when a tag name matches no tag group.
TagsResolve(tags, host_tags) ==
  \A i \in 1..Len(host_tags) : get_tag(tags, host_tags[i][1]) # None

\* Host tags that leave out the values that are no choice of their group.
create_valid_host_tags(tags, host_tags) ==
  LET valid == SelectSeq(host_tags, LAMBDA item : is_possible_value(tags, item[1], item[2]))
  IN DictOf([i \in 1..Len(valid) |-> <<get_tag(tags, valid[i][1]), valid[i][2]>>])

create_host_tags(tags, host_tags) ==
  DictOf([i \in 1..Len(host_tags) |-> <<get_tag(tags, host_tags[i][1]), host_tags[i][2]>>])

\* The values create_host_tags reports (logs) as impossible choices.
ReportedTags(tags, host_tags) ==
  {tag \in DOMAIN create_host_tags(tags, host_tags) :
     ~is_possible_value(tags, tag, create_host_tags(tags, host_tags)[tag])}

ip_needs_modification(old_ip, new_ip) == old_ip # new_ip

clean_cmk_attributes(host) ==
  [key \in {k \in DOMAIN host : ~(k \in BUILTIN_ATTRIBUTES \/ is_tag(k))} |-> host[key]]

get_dynamic_folder_path(cfg, labels, keys, depth) ==
  LET path == generate_path_from_labels(labels, keys, depth)
      full == IF cfg.folder # "" THEN <<cfg.folder>> \o path ELSE path
  IN Join([i \in 1..Len(full) |-> Replace(full[i], " ", "_")], PATH_SEPERATOR)

get_folder_path(cfg, labels) ==
  IF cfg.label_path_template # ""
  THEN LET path_labels == Split(cfg.label_path_template, PATH_SEPERATOR)
       IN get_dynamic_folder_path(cfg, labels, path_labels, Len(path_labels))
  ELSE cfg.folder

\* The imported tags of a record as host attributes; nothing when tag_matcher is None.
ImportedTags(tagm, cmdb_host) ==
  IF tagm.none THEN EmptyDict ELSE create_host_tags(tagm.tags, get_host_tags(cmdb_host))

\* Whether building a tuple for this record raises the ValueError of get_tag.
RaisesUnknownTag(tagm, cmdb_host) ==
  ~tagm.none /\ ~TagsResolve(tagm.tags, get_host_tags(cmdb_host))

get_host_creation_tuple(cfg, tagm, order, host, hostname) ==
  LET labels == get_host_label(host, hostname_field)
      folder_path == get_folder_path(cfg, labels)
      prefixed_labels == add_prefix_to_labels(labels, cfg.label_prefix)
      ip_address == get_ip_address(host, order)
      base == [k \in {"labels", "locked_by"} |->
                 IF k = "labels" THEN prefixed_labels ELSE global_ident]
      with_ip == IF ip_address # None THEN Update(base, [ipaddress |-> ip_address]) ELSE base
      with_tags == Update(with_ip, ImportedTags(tagm, host))
  IN <<hostname, folder_path, Update(with_tags, get_host_attributes(host))>>

\* A move decision that compares the folder with the relative path.
get_host_move_tuple_relative(cfg, existing_host, cmdb_host) ==
  LET hostname == normalize_hostname(Get(cmdb_host, hostname_field))
      future_folder_path == get_folder_path(cfg, get_host_label(cmdb_host, hostname_field))
  IN IF existing_host.folder # future_folder_path
     THEN <<hostname, future_folder_path>>
     ELSE <<>>

\* get_host_move_tuple; <<>> is the empty tuple.
get_host_move_tuple(cfg, existing_host, cmdb_host) ==
  LET hostname == normalize_hostname(Get(cmdb_host, hostname_field))
      future_folder_path == get_folder_path(cfg, get_host_label(cmdb_host, hostname_field))
  IN IF existing_host.folder # "/" \o future_folder_path
     THEN <<hostname, future_folder_path>>
     ELSE <<>>

\* api_label as update_needed compares it: with a label prefix only the
\* labels that start with the prefix are managed.
ManagedApiLabel(api_label, label_prefix) ==
  IF Falsy(label_prefix) THEN api_label
  ELSE [key \in {k \in DOMAIN api_label : StartsWith(k, label_prefix)} |-> api_label[key]]

\* update_needed without the overtake test.
update_needed_by_difference(overtake, comparable_attributes, future_attributes, api_label, future_label, tags_enabled, api_tags, future_tags, upd_ips, existing_ip, future_ip) ==
  \/ needs_modification(comparable_attributes, future_attributes)
  \/ needs_modification(api_label, future_label)
  \/ (tags_enabled /\ needs_modification(api_tags, future_tags))
  \/ (upd_ips /\ ip_needs_modification(existing_ip, future_ip))

update_needed(overtake, comparable_attributes, future_attributes, api_label, future_label, tags_enabled, api_tags, future_tags, upd_ips, existing_ip, future_ip) ==
  \/ overtake
  \/ needs_modification(comparable_attributes, future_attributes)
  \/ needs_modification(api_label, future_label)
  \/ (tags_enabled /\ needs_modification(api_tags, future_tags))
  \/ (upd_ips /\ ip_needs_modification(existing_ip, future_ip))

\* A tuple that never asks to unset an attribute.
no_attributes_to_unset(upd_ips, existing_ip, future_ip) == <<>>

\* The list attributes_to_unset of an emitted tuple.
attributes_to_unset(upd_ips, existing_ip, future_ip) ==
  IF upd_ips /\ future_ip = None /\ existing_ip # None THEN <<"ipaddress">> ELSE <<>>

\* A tuple that holds the imported values only and none of the other
\* attributes of the remote host.
ImportedAttributesOnly(attributes, merged_label, upd_ips, future_ip, future_tags, future_attributes, overtake) ==
  LET with_labels == [labels |-> merged_label, locked_by |-> global_ident]
      with_ip == IF upd_ips /\ future_ip # None
                 THEN Update(with_labels, [ipaddress |-> future_ip]) ELSE with_labels
  IN Without(Update(Update(with_ip, future_tags), future_attributes), "hostname")

\* The dict "attributes" (the remote host's own dict, changed in place) when
\* get_host_modification_tuple returns a tuple.
ModifiedAttributes(attributes, merged_label, upd_ips, future_ip, future_tags, future_attributes, overtake) ==
  LET with_labels == Update(attributes, [k \in {"labels"} |-> merged_label])
      with_ip == IF upd_ips /\ future_ip # None
                 THEN Update(with_labels, [ipaddress |-> future_ip]) ELSE with_labels
      with_tags == Update(with_ip, future_tags)
      with_attributes == Update(with_tags, future_attributes)
      locked == IF overtake THEN Update(with_attributes, [locked_by |-> global_ident])
                ELSE with_attributes
  IN Without(locked, "hostname")

\* get_host_modification_tuple; <<>> is the empty tuple.
get_host_modification_tuple(cfg, tagm, upd_ips, order, existing_host, cmdb_host, overtake) ==
  LET hostname == normalize_hostname(Get(cmdb_host, hostname_field))
      attributes == existing_host.attributes
      future_attributes == get_host_attributes(cmdb_host)
      comparable_attributes == clean_cmk_attributes(attributes)
      unmodified_api_label ==
        IF "labels" \in DOMAIN attributes THEN attributes["labels"] ELSE EmptyDict
      future_label ==
        add_prefix_to_labels(get_host_label(cmdb_host, hostname_field), cfg.label_prefix)
      api_label == ManagedApiLabel(unmodified_api_label, cfg.label_prefix)
      api_tags == get_api_tags(attributes)
      future_tags == ImportedTags(tagm, cmdb_host)
      existing_ip == AttributeOf(attributes, "ipaddress")
      future_ip == get_ip_address(cmdb_host, order)
  IN IF update_needed(overtake, comparable_attributes, future_attributes, api_label,
                      future_label, ~tagm.none, api_tags, future_tags, upd_ips, existing_ip,
                      future_ip)
     THEN <<hostname,
            ModifiedAttributes(attributes, Update(unmodified_api_label, future_label), upd_ips,
                               future_ip, future_tags, future_attributes, overtake),
            attributes_to_unset(upd_ips, existing_ip, future_ip)>>
     ELSE <<>>

\* The tuples of hosts_to_modify hold the remote host's own attributes dict:
\* a later change of that dict shows in every tuple that holds it.
Aliased(tuples, hostname, attributes) ==
  [i \in 1..Len(tuples) |->
     IF tuples[i][1] = hostname THEN <<tuples[i][1], attributes, tuples[i][3]>> ELSE tuples[i]]

(***************************************************************************)
(* _partition_hosts: the steps                                             *)
(***************************************************************************)
Batches == <<hosts_to_create, hosts_to_modify, hosts_to_move, hosts_to_delete>>
Partition == <<hosts_managed_by_plugin, hosts_to_overtake, unrelated_hosts>>
Inputs ==
  <<config, remote_hosts, api_supports_tags, ip_order, cmdb_hosts, cmk_tags, update_ips,
    arguments, results>>
Results == <<created_host_names, modified_host_names, deleted_host_names, moved_host_names>>
Gateway ==
  <<cycle, api_client, remote_folders, calls, returned_values, folders, elapsed, log,
    Results>>

\* The ownership loop over cmk_hosts.
ClassifyHosts ==
  /\ pc = "fetched"
  /\ hosts_managed_by_plugin' =
       {h \in DOMAIN cmk_hosts :
          Ownership(h, cmk_hosts[h], config.host_overtake_filters) = "managed"}
  /\ hosts_to_overtake' =
       {h \in DOMAIN cmk_hosts :
          Ownership(h, cmk_hosts[h], config.host_overtake_filters) = "overtake"}
  /\ unrelated_hosts' =
       {h \in DOMAIN cmk_hosts :
          Ownership(h, cmk_hosts[h], config.host_overtake_filters) = "unrelated"}
  /\ hosts_to_create' = <<>>
  /\ hosts_to_modify' = <<>>
  /\ hosts_to_move' = <<>>
  /\ hosts_to_delete' = <<>>
  /\ idx' = 1
  /\ pc' = "records"
  /\ UNCHANGED <<Inputs, Gateway, cmk_hosts>>

InLoop == pc = "records" /\ idx <= Len(cmdb_hosts)

CurrentHostname == normalize_hostname(Get(cmdb_hosts[idx], hostname_field))

\* "continue": the record fails the host filters.
SkipFilteredHost ==
  /\ InLoop
  /\ ~host_matches_filters(config.host_filters, CurrentHostname)
  /\ idx' = idx + 1
  /\ UNCHANGED <<Inputs, Gateway, cmk_hosts, pc, Partition, Batches>>

\* "continue": the host exists and is not managed by this plugin.
SkipUnrelatedHost ==
  /\ InLoop
  /\ host_matches_filters(config.host_filters, CurrentHostname)
  /\ CurrentHostname \in DOMAIN cmk_hosts
  /\ CurrentHostname \in unrelated_hosts
  /\ idx' = idx + 1
  /\ UNCHANGED <<Inputs, Gateway, cmk_hosts, pc, Partition, Batches>>

\* get_tag raises ValueError while a tuple is built: _partition_hosts, and
\* with it _update_config and phase 2, end with the exception.
RaiseUnknownTag ==
  /\ InLoop
  /\ host_matches_filters(config.host_filters, CurrentHostname)
  /\ CurrentHostname \notin unrelated_hosts
  /\ RaisesUnknownTag(cmk_tags, cmdb_hosts[idx])
  /\ pc' = "failed"
  /\ UNCHANGED <<Inputs, Gateway, cmk_hosts, idx, Partition, Batches>>

\* A loop that creates a missing host at once instead of planning it.
PlanCreationEagerly ==
  /\ pc = "records" /\ idx <= Len(cmdb_hosts)
  /\ host_matches_filters(config.host_filters,
                          normalize_hostname(Get(cmdb_hosts[idx], hostname_field)))
  /\ normalize_hostname(Get(cmdb_hosts[idx], hostname_field)) \notin DOMAIN cmk_hosts
  /\ ~RaisesUnknownTag(cmk_tags, cmdb_hosts[idx])
  /\ hosts_to_create' =
       Append(hosts_to_create,
              get_host_creation_tuple(config, cmk_tags, ip_order, cmdb_hosts[idx],
                                      normalize_hostname(Get(cmdb_hosts[idx], hostname_field))))
  /\ calls' =
       Append(calls,
              [by |-> "create", op |-> "add_hosts",
               arg |-> <<normalize_hostname(Get(cmdb_hosts[idx], hostname_field))>>,
               ret |-> EmptyDict])
  /\ idx' = idx + 1
  /\ UNCHANGED <<Inputs, cycle, api_client, remote_folders, returned_values, folders, elapsed,
                 log, Results, cmk_hosts, pc, Partition, hosts_to_modify, hosts_to_move,
                 hosts_to_delete>>

\* except KeyError: the host is missing and has to be created.
PlanCreation ==
  /\ InLoop
  /\ host_matches_filters(config.host_filters, CurrentHostname)
  /\ CurrentHostname \notin DOMAIN cmk_hosts
  /\ ~RaisesUnknownTag(cmk_tags, cmdb_hosts[idx])
  /\ hosts_to_create' =
       Append(hosts_to_create,
              get_host_creation_tuple(config, cmk_tags, ip_order, cmdb_hosts[idx],
                                      CurrentHostname))
  /\ idx' = idx + 1
  /\ UNCHANGED <<Inputs, Gateway, cmk_hosts, pc, Partition, hosts_to_modify, hosts_to_move,
                 hosts_to_delete>>

\* The host exists and is managed or to be overtaken: modification and move.
CheckManagedHost ==
  /\ InLoop
  /\ host_matches_filters(config.host_filters, CurrentHostname)
  /\ CurrentHostname \in DOMAIN cmk_hosts
  /\ CurrentHostname \notin unrelated_hosts
  /\ ~RaisesUnknownTag(cmk_tags, cmdb_hosts[idx])
  /\ LET existing_host == cmk_hosts[CurrentHostname]
         host_modifications ==
           get_host_modification_tuple(config, cmk_tags, update_ips, ip_order, existing_host,
                                       cmdb_hosts[idx], CurrentHostname \in hosts_to_overtake)
         host_move == get_host_move_tuple(config, existing_host, cmdb_hosts[idx])
     IN /\ IF host_modifications # <<>>
           THEN /\ cmk_hosts' =
                     [cmk_hosts EXCEPT ![CurrentHostname].attributes = host_modifications[2]]
                /\ hosts_to_modify' =
                     Append(Aliased(hosts_to_modify, CurrentHostname, host_modifications[2]),
                            host_modifications)
           ELSE UNCHANGED <<cmk_hosts, hosts_to_modify>>
        /\ hosts_to_move' =
             IF host_move # <<>> THEN Append(hosts_to_move, host_move) ELSE hosts_to_move
  /\ idx' = idx + 1
  /\ UNCHANGED <<Inputs, Gateway, pc, Partition, hosts_to_create, hosts_to_delete>>

\* The orders list(a_set) can give.
Orderings(S) ==
  {order \in [1..Cardinality(S) -> S] : \A i, j \in 1..Cardinality(S) : order[i] = order[j] => i = j}

\* The hostname of the first record only.
first_cmdb_hostname(hosts) ==
  {normalize_hostname(Get(hosts[i], hostname_field)) : i \in 1..Len(hosts) \cap {1}}

cmdb_hostnames(hosts) ==
  {normalize_hostname(Get(hosts[i], hostname_field)) : i \in 1..Len(hosts)}

\* A delete set that subtracts only the records the host filters accept.
DeleteSetOfAccepted(managed, hosts) ==
  managed \ {h \in cmdb_hostnames(hosts) : host_matches_filters(config.host_filters, h)}

DeleteSet(managed, hosts) == managed \ cmdb_hostnames(hosts)

\* hosts_to_delete = list(set(hosts_managed_by_plugin) - cmdb_hostnames), and the return.
CollectDeletions ==
  /\ pc = "records"
  /\ idx > Len(cmdb_hosts)
  /\ hosts_to_delete' \in Orderings(DeleteSet(hosts_managed_by_plugin, cmdb_hosts))
  /\ pc' = "planned"
  /\ UNCHANGED <<Inputs, Gateway, cmk_hosts, idx, Partition, hosts_to_create, hosts_to_modify,
                 hosts_to_move>>

PartitionStep ==
  \/ ClassifyHosts
  \/ SkipFilteredHost
  \/ SkipUnrelatedHost
  \/ RaiseUnknownTag
  \/ PlanCreation
  \/ CheckManagedHost
  \/ CollectDeletions

(***************************************************************************)
(* The inputs of a cycle                                                   *)
(***************************************************************************)
MaxImport == 2

other_ident == "plugin/other"

RecordPool ==
  { << <<"hostname", "Server A">>, <<"attr_owner", "infra">>, <<"tag_env", "prod">>,
       <<"ipv4", "10.0.0.5">> >>,
    << <<"hostname", "server_a">>, <<"attr_owner", "ops">>, <<"Tag_Env", "prod">>,
       <<"site", "x y">> >>,
    << <<"hostname", "db1">>, <<"site", "dc">>, <<"ip", " 10.0.0.7 ,10.0.0.8">>,
       <<"ipv4", "10.0.0.6">> >>,
    << <<"hostname", "db1">>, <<"attr_tag_env", "prod">>, <<"attr_locked_by", "evil">> >>,
    << <<"hostname", "db1">>, <<"tag_env", "bogus">>, <<"label_site", "dc">> >>,
    << <<"hostname", "db1">>, <<"tag_zone", "x">> >> }

\* The imports: up to MaxImport records of the pool, no record twice (two
\* records may still name the same host).
Imports ==
  UNION {{hosts \in [1..n -> RecordPool] : \A i, j \in 1..n : hosts[i] = hosts[j] => i = j} :
           n \in 0..MaxImport}

\* get_host_tags() of the site: one tag group, env, with two choices.
SiteTagGroups == << [id |-> "env", tags |-> <<"prod", "test">>] >>

ServerA ==
  [labels |-> EmptyDict, locked_by |-> global_ident, ipaddress |-> "10.0.0.5",
   tag_env |-> "prod", owner |-> "infra", meta_data |-> "created"]

Db1 ==
  [labels |-> [k \in {"site", "cmdb/site", "manual"} |-> IF k = "manual" THEN "yes" ELSE "dc"],
   locked_by |-> global_ident, ipaddress |-> "10.0.0.9", alias |-> "db",
   meta_data |-> "created"]

Db1Tagged ==
  [labels |-> EmptyDict, locked_by |-> global_ident, tag_env |-> "prod",
   meta_data |-> "created"]

ServerAPool ==
  { [folder |-> "/imported", attributes |-> ServerA],
    [folder |-> "/imported", attributes |-> Without(ServerA, "locked_by")],
    [folder |-> "/imported", attributes |-> Update(ServerA, [locked_by |-> other_ident])] }

Db1Pool ==
  { [folder |-> "/imported/dc", attributes |-> Db1],
    [folder |-> "/imported", attributes |-> Db1Tagged] }

RemotePool ==
  {[h \in names |-> IF h = "server_a" THEN a ELSE d] :
     names \in SUBSET {"server_a", "db1"}, a \in ServerAPool, d \in Db1Pool}

ConfigPool ==
  { [folder |-> "imported", host_filters |-> <<>>, host_overtake_filters |-> <<>>,
     label_path_template |-> "", label_prefix |-> "",
     chunk_size |-> 0, use_service_discovery |-> TRUE],
    [folder |-> "imported", host_filters |-> <<"db">>, host_overtake_filters |-> <<>>,
     label_path_template |-> "", label_prefix |-> "",
     chunk_size |-> 0, use_service_discovery |-> TRUE],
    [folder |-> "imported", host_filters |-> <<>>, host_overtake_filters |-> <<"server">>,
     label_path_template |-> "", label_prefix |-> "",
     chunk_size |-> 0, use_service_discovery |-> TRUE],
    [folder |-> "imported", host_filters |-> <<>>, host_overtake_filters |-> <<>>,
     label_path_template |-> "site", label_prefix |-> "",
     chunk_size |-> 0, use_service_discovery |-> TRUE],
    [folder |-> "imported", host_filters |-> <<>>, host_overtake_filters |-> <<>>,
     label_path_template |-> "", label_prefix |-> "cmdb/",
     chunk_size |-> 0, use_service_discovery |-> TRUE],
    [folder |-> "", host_filters |-> <<"db", "server">>, host_overtake_filters |-> <<"server">>,
     label_path_template |-> "site/role", label_prefix |-> "cmdb/",
     chunk_size |-> 0, use_service_discovery |-> TRUE] }

\* JSONImporter.import_hosts: the fields are the keys of all records.
FieldNames(hosts) == UNION {Keys(hosts[i]) : i \in 1..Len(hosts)}

\* The iteration order of the set IP_ATTRIBUTES is fixed within a process and
\* differs from process to process (string hashing).  It can be observed only
\* on a record with several IP fields; the records here carry at most ipv4
\* and ip, so one order per possible winner stands for all six.
IpOrders(hosts) ==
  IF \E i \in 1..Len(hosts) : Cardinality(Keys(hosts[i]) \cap IP_ATTRIBUTES) > 1
  THEN {<<"ipv4", "ip", "ipaddress">>, <<"ip", "ipaddress", "ipv4">>}
  ELSE {<<"ipv4", "ip", "ipaddress">>}

\* _execute_phase2, "Fetching existing hosts": cmk_tags
FetchTags(hosts, supports_tags) ==
  IF (\E name \in FieldNames(hosts) : is_tag(name)) /\ supports_tags
  THEN [none |-> FALSE, tags |-> create_hostlike_tags(SiteTagGroups)]
  ELSE [none |-> TRUE, tags |-> <<>>]

\* The state when phase 2 has fetched the hosts and the tags of the site.
Fetched(configs, remotes, imports) ==
  /\ config \in configs
  /\ remote_hosts \in remotes
  /\ cmdb_hosts \in imports
  /\ api_supports_tags \in
       IF \E name \in FieldNames(cmdb_hosts) : is_tag(name) THEN BOOLEAN ELSE {TRUE}
  /\ ip_order \in IpOrders(cmdb_hosts)
  /\ cmk_hosts = remote_hosts
  /\ cmk_tags = FetchTags(cmdb_hosts, api_supports_tags)
  /\ update_ips = fields_contain_ip_addresses(FieldNames(cmdb_hosts))
  /\ pc = "fetched"
  /\ idx = 1
  /\ hosts_managed_by_plugin = {}
  /\ hosts_to_overtake = {}
  /\ unrelated_hosts = {}
  /\ hosts_to_create = <<>>
  /\ hosts_to_modify = <<>>
  /\ hosts_to_move = <<>>
  /\ hosts_to_delete = <<>>
  /\ cycle = 1
  /\ calls = <<>>
  /\ returned_values = EmptyDict
  /\ folders = <<>>
  /\ elapsed = 0
  /\ log = <<>>
  /\ created_host_names = <<>>
  /\ modified_host_names = <<>>
  /\ deleted_host_names = <<>>
  /\ moved_host_names = <<>>
  /\ arguments = NoArguments
  /\ results = <<>>

Init ==
  /\ Fetched(ConfigPool, RemotePool, Imports)
  /\ api_client = "http"
  /\ remote_folders = {}

Next == PartitionStep

Spec == Init /\ [][Next]_vars

(***************************************************************************)
(* Two cycles: the batches of the first are applied completely             *)
(***************************************************************************)
RECURSIVE WithoutAll(_, _)
WithoutAll(d, keys) == IF keys = <<>> THEN d ELSE WithoutAll(Without(d, Head(keys)), Tail(keys))

\* The hosts of the site after one successful add_hosts, modify_hosts,
\* delete_hosts or move_host item.  modify_hosts sends the attributes without
\* meta_data (_remove_meta_data) next to the attributes to unset.
SiteAfterOne(hosts, op, item) ==
  CASE op = "add_hosts" ->
         [h \in DOMAIN hosts \cup {item[1]} |->
            IF h = item[1] THEN [folder |-> "/" \o item[2], attributes |-> item[3]]
            ELSE hosts[h]]
    [] op = "modify_hosts" ->
         [hosts EXCEPT ![item[1]].attributes =
            WithoutAll(Update(@, Without(item[2], "meta_data")), item[3])]
    [] op = "delete_hosts" -> [h \in DOMAIN hosts \ {item} |-> hosts[h]]
    [] op = "move_host" -> [hosts EXCEPT ![item[1]].folder = "/" \o item[2]]

RECURSIVE SiteAfter(_, _, _)
SiteAfter(hosts, op, items) ==
  IF items = <<>> THEN hosts
  ELSE SiteAfter(SiteAfterOne(hosts, op, Head(items)), op, Tail(items))

\* _update_config applies the four batches in its order and every item
\* succeeds (a site takes a hostname once, so the created names differ); the
\* next cycle imports the same file and fetches the hosts again.
ApplyCompletely ==
  /\ pc = "planned"
  /\ cycle = 1
  /\ \A i, j \in 1..Len(hosts_to_create) :
       hosts_to_create[i][1] = hosts_to_create[j][1] => i = j
  /\ remote_hosts' =
       SiteAfter(SiteAfter(SiteAfter(SiteAfter(remote_hosts, "add_hosts", hosts_to_create),
                                     "modify_hosts", hosts_to_modify),
                           "delete_hosts", hosts_to_delete),
                 "move_host", hosts_to_move)
  /\ cmk_hosts' = remote_hosts'
  /\ cycle' = 2
  /\ pc' = "fetched"
  /\ UNCHANGED <<config, api_supports_tags, ip_order, cmdb_hosts, cmk_tags, update_ips, idx,
                 Partition, Batches, api_client, remote_folders, calls, returned_values,
                 folders, elapsed, log, Results, arguments, results>>

NextIdem == PartitionStep \/ ApplyCompletely

SpecIdem == Init /\ [][NextIdem]_vars

(***************************************************************************)
(* Cycles whose records differ in their IP fields                          *)
(***************************************************************************)
\* Records with an IP field, with attr_ipaddress, with both and with neither.
ModifyRecordPool ==
  { << <<"hostname", "db1">>, <<"ipv4", "10.0.0.6">> >>,
    << <<"hostname", "db1">>, <<"attr_ipaddress", "10.1.1.1">> >>,
    << <<"hostname", "db1">>, <<"ip", "10.0.0.6">>, <<"attr_ipaddress", "10.1.1.1">> >>,
    << <<"hostname", "db1">>, <<"tag_zone", "x">>, <<"site", "lab">> >>,
    << <<"hostname", "server_a">>, <<"attr_owner", "infra">> >>,
    << <<"hostname", "server_a">>, <<"ipaddress", "10.0.0.5">>, <<"attr_owner", "ops">> >> }

\* The remote hosts of RemotePool, and a site whose db1 has the label site with
\* and without the label prefix.
InitModify ==
  /\ Fetched(ConfigPool,
             RemotePool \cup
               {[h \in {"db1"} |->
                   [folder |-> "/imported",
                    attributes |->
                      [labels |-> [k \in {"site", "cmdb/site"} |->
                                     IF k = "site" THEN "old" ELSE "lab"],
                       locked_by |-> global_ident]]]},
             UNION {{hosts \in [1..n -> ModifyRecordPool] :
                       \A i, j \in 1..n : hosts[i] = hosts[j] => i = j} : n \in 0..MaxImport})
  /\ api_client = "http"
  /\ remote_folders = {}

SpecModify == InitModify /\ [][Next]_vars

(***************************************************************************)
(* The gateway and the Chunker                                             *)
(***************************************************************************)
\* One remote call: the category of _update_config that issued it, the
\* method of the API client, the hostnames (or folder) passed and the result.
Call(by, op, arg, ret) == [by |-> by, op |-> op, arg |-> arg, ret |-> ret]

Names(tuples) == [i \in 1..Len(tuples) |-> tuples[i][1]]

\* What add_hosts and modify_hosts of the site can return for the hosts named:
\* all succeeded, all failed, or nothing (an empty dict).
Outcomes == {"succeeded", "failed", "empty"}

GatewayResult(outcome, names) ==
  CASE outcome = "succeeded" ->
         [k \in {"succeeded_hosts", "failed_hosts"} |->
            IF k = "succeeded_hosts" THEN names ELSE EmptyDict]
    [] outcome = "failed" ->
         [k \in {"succeeded_hosts", "failed_hosts"} |->
            IF k = "succeeded_hosts" THEN <<>>
            ELSE [h \in {names[i] : i \in 1..Len(names)} |-> "error"]]
    [] outcome = "empty" -> EmptyDict

\* "if single_call_return": a dict with a key is true.
Truthy(dict) == DOMAIN dict # {}

\* zip over count references to one iterator: the full groups only.
full_chunks(length, count) ==
  [g \in 1..(length \div count) |-> [j \in 1..count |-> (g - 1) * count + j]]

\* Chunker.chunks: zip_longest over count references to one iterator gives
\* groups of count positions; a position past the end is the fill value None.
chunks(length, count) ==
  [g \in 1..((length + count - 1) \div count) |-> [j \in 1..count |-> (g - 1) * count + j]]

\* [c for c in chunk if c]
ChunkItems(parameter, chunk) ==
  LET present == SelectSeq(chunk, LAMBDA position : position <= Len(parameter))
  IN [j \in 1..Len(present) |-> parameter[present[j]]]

\* A result that is the result of the last group only.
LastReturn(returned, single) == single

\* What the site may answer to an activation: no error, or the message of an
\* MKAPIError.
ActivationAnswers == {None, "Cannot activate: no changes to activate", "Site is locked"}

\* An activate_changes that raises every error of the site again.
activate_changes_raising(error) ==
  [answer |-> error, raised |-> error # None, value |-> error = None]

\* HttpApiClient.activate_changes (inherited by RestApiClient) with the answer
\* of the site: the value returned, or the error raised again.
activate_changes(error) ==
  IF error = None THEN [answer |-> error, raised |-> FALSE, value |-> TRUE]
  ELSE IF Contains(error, "no changes to activate")
       THEN [answer |-> error, raised |-> FALSE, value |-> FALSE]
       ELSE [answer |-> error, raised |-> TRUE, value |-> FALSE]

\* The accumulation of single_call_return into returned_values: extend for a
\* list, update for a dict, assignment for a key that is not there yet.
MergeReturn(returned, single) ==
  [k \in DOMAIN returned \cup DOMAIN single |->
     IF k \notin DOMAIN single THEN returned[k]
     ELSE IF k \notin DOMAIN returned THEN single[k]
     ELSE IF k = "succeeded_hosts" THEN returned[k] \o single[k]
     ELSE Update(returned[k], single[k])]

\* Chunker._chunk_returning_call, from group g on; acc holds the calls made
\* and returned_values so far, outcomes[g] is what the site answers to group g.
RECURSIVE chunk_returning_call(_, _, _, _, _, _)
chunk_returning_call(by, op, parameter, outcomes, g, acc) ==
  LET groups == chunks(Len(parameter), config.chunk_size)
  IN IF g > Len(groups) THEN acc
     ELSE LET items == ChunkItems(parameter, groups[g])
              single_call_return == GatewayResult(outcomes[g], items)
              called == Append(acc.calls, Call(by, op, items, single_call_return))
          IN chunk_returning_call(by, op, parameter, outcomes, g + 1,
               IF Truthy(single_call_return)
               THEN [calls |-> Append(called, Call(by, "activate_changes", <<>>, activate_changes(None))),
                     returned_values |-> MergeReturn(acc.returned_values, single_call_return)]
               ELSE [calls |-> called, returned_values |-> acc.returned_values])

\* Chunker._chunk_call, from group g on.
RECURSIVE chunk_call(_, _, _, _, _)
chunk_call(by, op, parameter, g, acc) ==
  LET groups == chunks(Len(parameter), config.chunk_size)
  IN IF g > Len(groups) THEN acc
     ELSE LET items == ChunkItems(parameter, groups[g])
              called == Append(acc.calls, Call(by, op, items, EmptyDict))
          IN chunk_call(by, op, parameter, g + 1,
               [calls |-> Append(called, Call(by, "activate_changes", <<>>, activate_changes(None))),
                returned_values |-> acc.returned_values])

\* The number of answers of the site a call of add_hosts or modify_hosts takes.
NumberOfCalls(parameter) ==
  IF config.chunk_size # 0 THEN Len(chunks(Len(parameter), config.chunk_size)) ELSE 1

\* self._api_client.add_hosts or modify_hosts: the Chunker when a chunk size
\* is configured (_get_api_client), else the API client itself.
ReturningCall(by, op, parameter, outcomes) ==
  IF config.chunk_size # 0
  THEN chunk_returning_call(by, op, parameter, outcomes, 1,
                            [calls |-> calls, returned_values |-> EmptyDict])
  ELSE LET result == GatewayResult(outcomes[1], parameter)
       IN [calls |-> Append(calls, Call(by, op, parameter, result)), returned_values |-> result]

\* self._api_client.delete_hosts
PlainCall(by, op, parameter) ==
  IF config.chunk_size # 0
  THEN chunk_call(by, op, parameter, 1, [calls |-> calls, returned_values |-> EmptyDict])
  ELSE [calls |-> Append(calls, Call(by, op, parameter, EmptyDict)),
        returned_values |-> EmptyDict]

(***************************************************************************)
(* The Chunker on its own: one chunked call on a batch                     *)
(***************************************************************************)
MaxBatch == 7
MaxChunk == 3

HostNames == <<"h1", "h2", "h3", "h4", "h5", "h6", "h7", "h8", "h9">>

ChunkerConfig(chunk_size) ==
  [folder |-> "imported", host_filters |-> <<>>, host_overtake_filters |-> <<>>,
   label_path_template |-> "", label_prefix |-> "",
   chunk_size |-> chunk_size, use_service_discovery |-> FALSE]

\* No cycle is running: nothing imported, nothing fetched.
NoCycle ==
  /\ remote_hosts = EmptyDict
  /\ cmk_hosts = EmptyDict
  /\ cmdb_hosts = <<>>
  /\ api_supports_tags = TRUE
  /\ ip_order = <<"ipv4", "ip", "ipaddress">>
  /\ cmk_tags = [none |-> TRUE, tags |-> <<>>]
  /\ update_ips = FALSE
  /\ idx = 1
  /\ hosts_managed_by_plugin = {}
  /\ hosts_to_overtake = {}
  /\ unrelated_hosts = {}
  /\ hosts_to_move = <<>>
  /\ cycle = 1
  /\ api_client = "http"
  /\ remote_folders = {}
  /\ calls = <<>>
  /\ returned_values = EmptyDict
  /\ folders = <<>>
  /\ elapsed = 0
  /\ log = <<>>
  /\ created_host_names = <<>>
  /\ modified_host_names = <<>>
  /\ deleted_host_names = <<>>
  /\ moved_host_names = <<>>
  /\ results = <<>>

\* A Chunker with a chunk size of 1..MaxChunk is about to be called with a
\* batch of 0..MaxBatch items through add_hosts, modify_hosts or delete_hosts.
InitChunk ==
  /\ NoCycle
  /\ arguments = NoArguments
  /\ \E chunk_size \in 1..MaxChunk : config = ChunkerConfig(chunk_size)
  /\ \E n \in 0..MaxBatch :
       /\ hosts_to_create =
            [i \in 1..n |->
               <<HostNames[i], "imported", [labels |-> EmptyDict, locked_by |-> global_ident]>>]
       /\ hosts_to_modify =
            [i \in 1..n |->
               <<HostNames[i], [labels |-> EmptyDict, locked_by |-> global_ident], <<>>>>]
       /\ hosts_to_delete = [i \in 1..n |-> HostNames[i]]
  /\ pc \in {"add_hosts", "modify_hosts", "delete_hosts"}

\* Chunker.add_hosts(hosts_to_create)
ChunkedAddHosts ==
  /\ pc = "add_hosts"
  /\ \E outcomes \in [1..NumberOfCalls(hosts_to_create) -> Outcomes] :
       LET made == ReturningCall("create", "add_hosts", Names(hosts_to_create), outcomes)
       IN calls' = made.calls /\ returned_values' = made.returned_values
  /\ pc' = "returned"
  /\ UNCHANGED <<Inputs, cmk_hosts, idx, Partition, Batches, cycle, api_client, remote_folders,
                 folders, elapsed, log, Results>>

\* Chunker.modify_hosts(hosts_to_modify)
ChunkedModifyHosts ==
  /\ pc = "modify_hosts"
  /\ \E outcomes \in [1..NumberOfCalls(hosts_to_modify) -> Outcomes] :
       LET made == ReturningCall("modify", "modify_hosts", Names(hosts_to_modify), outcomes)
       IN calls' = made.calls /\ returned_values' = made.returned_values
  /\ pc' = "returned"
  /\ UNCHANGED <<Inputs, cmk_hosts, idx, Partition, Batches, cycle, api_client, remote_folders,
                 folders, elapsed, log, Results>>

\* Chunker.delete_hosts(hosts_to_delete)
ChunkedDeleteHosts ==
  /\ pc = "delete_hosts"
  /\ LET made == PlainCall("delete", "delete_hosts", hosts_to_delete)
     IN calls' = made.calls /\ returned_values' = made.returned_values
  /\ pc' = "returned"
  /\ UNCHANGED <<Inputs, cmk_hosts, idx, Partition, Batches, cycle, api_client, remote_folders,
                 folders, elapsed, log, Results>>

NextChunk == ChunkedAddHosts \/ ChunkedModifyHosts \/ ChunkedDeleteHosts

SpecChunk == InitChunk /\ [][NextChunk]_vars

(***************************************************************************)
(* _update_config: the batches are applied                                 *)
(***************************************************************************)
\* The characters of names and folders in the order of their code points.
CodePointOrder == " /0123456789ABCDEFGHIJKLMNOPQRSTUVWXYZ_abcdefghijklmnopqrstuvwxyz"

Ord(c) == CHOOSE i \in 1..Len(CodePointOrder) : Char(CodePointOrder, i) = c

\* a < b for strings
RECURSIVE StrLess(_, _)
StrLess(a, b) ==
  IF a = "" THEN b # ""
  ELSE IF b = "" THEN FALSE
  ELSE IF Char(a, 1) = Char(b, 1) THEN StrLess(SubSeq(a, 2, Len(a)), SubSeq(b, 2, Len(b)))
  ELSE Ord(Char(a, 1)) < Ord(Char(b, 1))

\* sorted(a_set)
sorted(S) ==
  CHOOSE order \in Orderings(S) :
    \A i, j \in 1..Cardinality(S) : i < j => StrLess(order[i], order[j])

\* RestApiClient.prefix_path
prefix_path(path) ==
  IF StartsWith(path, PATH_SEPERATOR) THEN path ELSE PATH_SEPERATOR \o path

\* "for (_, folder_path, _) in hosts" raises ValueError on a tuple that has
\* not three items.
UnpacksAsTriples(hosts) == \A i \in 1..Len(hosts) : Len(hosts[i]) = 3

\* get_folders_from_new_hosts of the two API clients
get_folders_from_new_hosts(client, hosts) ==
  {IF client = "rest" THEN prefix_path(hosts[i][2]) ELSE hosts[i][2] : i \in 1..Len(hosts)}

\* _wait_for_folders: timeout and interval in seconds
timeout == 60
interval == 2

ApplyFrame == <<Inputs, cmk_hosts, idx, Partition, Batches, cycle, api_client, log>>

\* No label path template: _update_config goes on to the hosts at once.
SkipFolders ==
  /\ pc = "planned"
  /\ Falsy(config.label_path_template)
  /\ pc' = "create"
  /\ UNCHANGED <<ApplyFrame, remote_folders, calls, returned_values, folders, elapsed, Results>>

\* _process_folders(hosts) up to the end of the loop of _create_folders and
\* the activation, which may raise.  The site takes the new folders or
\* (accepted = FALSE) does not show them.
ProcessFolders(hosts, here, next) ==
  /\ pc = here
  /\ ~Falsy(config.label_path_template)
  /\ IF ~UnpacksAsTriples(hosts)
     THEN /\ pc' = "failed"
          /\ UNCHANGED <<remote_folders, calls, folders, elapsed, log>>
     ELSE LET host_folders == get_folders_from_new_hosts(api_client, hosts)
              asked == Append(calls, Call("folders", "get_folders", <<>>, EmptyDict))
              folders_to_create == sorted(host_folders \ remote_folders)
              added == asked \o [i \in 1..Len(folders_to_create) |->
                                   Call("folders", "add_folder", folders_to_create[i], EmptyDict)]
          IN IF folders_to_create = <<>>
             THEN /\ calls' = asked
                  /\ pc' = next
                  /\ UNCHANGED <<remote_folders, folders, elapsed, log>>
             ELSE \E error \in ActivationAnswers :
                    LET activated == activate_changes(error)
                    IN /\ calls' = Append(added, Call("folders", "activate_changes", <<>>, activated))
                       /\ folders' = folders_to_create
                       /\ elapsed' = 0
                       /\ log' = IF activated.raised \/ activated.value THEN log
                                 ELSE Append(log, "There was no change to activate")
                       /\ IF activated.raised
                          THEN /\ pc' = "failed"
                               /\ UNCHANGED remote_folders
                          ELSE /\ pc' = "wait_" \o next
                               /\ \E accepted \in BOOLEAN :
                                    remote_folders' =
                                      IF accepted THEN remote_folders \cup host_folders
                                      ELSE remote_folders
  /\ UNCHANGED <<Inputs, cmk_hosts, idx, Partition, Batches, cycle, api_client,
                 returned_values, Results>>

ProcessFoldersOfCreate == ProcessFolders(hosts_to_create, "planned", "folders_of_move")

ProcessFoldersOfMove == ProcessFolders(hosts_to_move, "folders_of_move", "create")

\* _wait_for_folders: one evaluation of the loop condition
\* "are_folders_missing() and get_duration() < timeout" with the sleep, or the
\* end of the loop with the test "get_duration() > timeout" after it.  The
\* site shows the new folders from some poll on; the clock (whole seconds) has
\* moved on by the sleep, and by a second more when the calls took their
\* time.  The call log keeps the last poll.
WaitForFolders ==
  /\ pc \in {"wait_folders_of_move", "wait_create"}
  /\ \E visible \in BOOLEAN :
       /\ remote_folders' =
            IF visible THEN remote_folders \cup {folders[i] : i \in 1..Len(folders)}
            ELSE remote_folders
       /\ IF (\E i \in 1..Len(folders) : folders[i] \notin remote_folders') /\ elapsed < timeout
          THEN /\ \E late \in 0..1 : elapsed' = elapsed + interval + late
               /\ UNCHANGED <<pc, calls, log>>
          ELSE /\ calls' = Append(calls, Call("folders", "get_folders", <<>>, EmptyDict))
               /\ log' = IF elapsed > timeout THEN Append(log, "folders timeout") ELSE log
               /\ elapsed' = 0
               /\ pc' = SubSeq(pc, Len("wait_") + 1, Len(pc))
  /\ UNCHANGED <<Inputs, cmk_hosts, idx, Partition, Batches, cycle, api_client, returned_values,
                 folders, Results>>

\* _wait_for_bulk_discovery: timeout in seconds, interval in milliseconds
discovery_timeout == 60
discovery_interval == 500

\* _create_new_hosts up to discover_services; result["failed_hosts"] of
\* _create_hosts raises KeyError on a result without that key.
CreateNewHosts ==
  /\ pc = "create"
  /\ IF hosts_to_create = <<>>
     THEN /\ pc' = "modify"
          /\ UNCHANGED <<calls, returned_values, created_host_names, elapsed>>
     ELSE \E outcomes \in [1..NumberOfCalls(hosts_to_create) -> Outcomes] :
            LET made == ReturningCall("create", "add_hosts", Names(hosts_to_create), outcomes)
                result == made.returned_values
            IN /\ returned_values' = result
               /\ IF "failed_hosts" \notin DOMAIN result
                  THEN /\ pc' = "failed"
                       /\ calls' = made.calls
                       /\ UNCHANGED <<created_host_names, elapsed>>
                  ELSE /\ created_host_names' = result.succeeded_hosts
                       /\ IF result.succeeded_hosts # <<>> /\ config.use_service_discovery
                          THEN /\ calls' =
                                    Append(made.calls,
                                           Call("create", "discover_services",
                                                result.succeeded_hosts, EmptyDict))
                               /\ elapsed' = 0
                               /\ pc' = "wait_discovery"
                          ELSE /\ calls' = made.calls
                               /\ pc' = "modify"
                               /\ UNCHANGED elapsed
  /\ UNCHANGED <<ApplyFrame, remote_folders, folders, modified_host_names,
                 deleted_host_names, moved_host_names>>

\* A wait that gives the cycle up when the discovery is still running at the
\* end.
WaitForBulkDiscoveryOrFail ==
  /\ pc = "wait_discovery"
  /\ \E running \in BOOLEAN :
       IF running /\ elapsed \div 1000 < discovery_timeout
       THEN /\ elapsed' = elapsed + discovery_interval
            /\ UNCHANGED <<pc, calls, log>>
       ELSE \E still_running \in BOOLEAN :
              /\ calls' = Append(calls, Call("create", "is_discovery_running", <<>>,
                                             [is_active |-> still_running]))
              /\ log' = IF still_running THEN Append(log, "discovery timeout") ELSE log
              /\ pc' = IF still_running THEN "failed" ELSE "modify"
              /\ elapsed' = 0
  /\ UNCHANGED <<Inputs, cmk_hosts, idx, Partition, Batches, cycle, api_client,
                 remote_folders, returned_values, folders, Results>>

\* _wait_for_bulk_discovery: one evaluation of the loop condition "not
\* discovery_stopped() and get_duration() < timeout" with the sleep, or the
\* end of the loop with the test after it; is_discovery_running answers what
\* the site says at that moment, and the call log keeps the last answer.
WaitForBulkDiscovery ==
  /\ pc = "wait_discovery"
  /\ \E running \in BOOLEAN :
       IF running /\ elapsed \div 1000 < discovery_timeout
       THEN /\ elapsed' = elapsed + discovery_interval
            /\ UNCHANGED <<pc, calls, log>>
       ELSE \E still_running \in BOOLEAN :
              /\ calls' = Append(calls, Call("create", "is_discovery_running", <<>>,
                                             [is_active |-> still_running]))
              /\ log' = IF still_running THEN Append(log, "discovery timeout") ELSE log
              /\ pc' = "modify"
              /\ elapsed' = 0
  /\ UNCHANGED <<Inputs, cmk_hosts, idx, Partition, Batches, cycle, api_client,
                 remote_folders, returned_values, folders, Results>>

\* HttpApiClient._remove_meta_data deletes meta_data in the attributes dicts
\* of the tuples themselves.
remove_meta_data(hosts) ==
  [i \in 1..Len(hosts) |-> <<hosts[i][1], Without(hosts[i][2], "meta_data"), hosts[i][3]>>]

\* _modify_existing_hosts and _modify_hosts
ModifyExistingHosts ==
  /\ pc = "modify"
  /\ IF hosts_to_modify = <<>>
     THEN /\ pc' = "delete"
          /\ UNCHANGED <<calls, returned_values, modified_host_names, hosts_to_modify, cmk_hosts>>
     ELSE /\ hosts_to_modify' = remove_meta_data(hosts_to_modify)
          /\ cmk_hosts' =
               [h \in DOMAIN cmk_hosts |->
                  IF h \in {hosts_to_modify[i][1] : i \in 1..Len(hosts_to_modify)}
                  THEN [cmk_hosts[h] EXCEPT !.attributes = Without(@, "meta_data")]
                  ELSE cmk_hosts[h]]
          /\ \E outcomes \in [1..NumberOfCalls(hosts_to_modify) -> Outcomes] :
               LET made == ReturningCall("modify", "modify_hosts", Names(hosts_to_modify),
                                         outcomes)
                   result == made.returned_values
               IN /\ returned_values' = result
                  /\ calls' = made.calls
                  /\ IF "failed_hosts" \notin DOMAIN result
                     THEN pc' = "failed" /\ UNCHANGED modified_host_names
                     ELSE pc' = "delete" /\ modified_host_names' = result.succeeded_hosts
  /\ UNCHANGED <<Inputs, idx, Partition, hosts_to_create, hosts_to_move, hosts_to_delete, cycle,
                 api_client, remote_folders, folders, elapsed, log, created_host_names,
                 deleted_host_names, moved_host_names>>

\* _delete_hosts without the test for an empty list
DeleteHostsUnchecked ==
  /\ pc = "delete"
  /\ calls' = PlainCall("delete", "delete_hosts", hosts_to_delete).calls
  /\ deleted_host_names' = hosts_to_delete
  /\ pc' = "move"
  /\ UNCHANGED <<ApplyFrame, remote_folders, returned_values, folders, elapsed,
                 created_host_names, modified_host_names, moved_host_names>>

\* _delete_hosts
DeleteHosts ==
  /\ pc = "delete"
  /\ IF hosts_to_delete = <<>>
     THEN UNCHANGED <<calls, deleted_host_names>>
     ELSE /\ calls' = PlainCall("delete", "delete_hosts", hosts_to_delete).calls
          /\ deleted_host_names' = hosts_to_delete
  /\ pc' = "move"
  /\ UNCHANGED <<ApplyFrame, remote_folders, returned_values, folders, elapsed,
                 created_host_names, modified_host_names, moved_host_names>>

\* _move_hosts: one move_host per tuple; moved[i] is the result of the site.
MoveHosts ==
  /\ pc = "move"
  /\ \E moved \in [1..Len(hosts_to_move) -> BOOLEAN] :
       /\ calls' =
            calls \o [i \in 1..Len(hosts_to_move) |->
                        Call("move", "move_host", hosts_to_move[i], [result |-> moved[i]])]
       /\ moved_host_names' =
            Names(SelectSeq([i \in 1..Len(hosts_to_move) |-> <<hosts_to_move[i][1], moved[i]>>],
                            LAMBDA item : item[2]))
  /\ pc' = "updated"
  /\ UNCHANGED <<ApplyFrame, remote_folders, returned_values, folders, elapsed,
                 created_host_names, modified_host_names, deleted_host_names>>

\* A change flag that does not look at the moved hosts.
hosts_changed_without_moves ==
  \/ created_host_names # <<>>
  \/ modified_host_names # <<>>
  \/ deleted_host_names # <<>>

\* changes_to_hosts of _update_config
hosts_changed ==
  \/ created_host_names # <<>>
  \/ modified_host_names # <<>>
  \/ deleted_host_names # <<>>
  \/ moved_host_names # <<>>

\* requires_activation: False for the Chunker, True for the API clients
requires_activation == config.chunk_size = 0

\* Phase 2.4: Activating changes
Phase2Activate ==
  /\ pc = "updated"
  /\ IF hosts_changed /\ requires_activation
     THEN \E error \in ActivationAnswers :
            LET activated == activate_changes(error)
            IN /\ calls' = Append(calls, Call("phase2", "activate_changes", <<>>, activated))
               /\ log' = IF activated.raised THEN log
                         ELSE IF activated.value THEN Append(log, "Activated the changes")
                         ELSE log \o <<"There was no change to activate", "Not activated">>
               /\ pc' = IF activated.raised THEN "failed" ELSE "done"
     ELSE /\ log' = Append(log, "No activation needed")
          /\ pc' = "done"
          /\ UNCHANGED calls
  /\ UNCHANGED <<Inputs, cmk_hosts, idx, Partition, Batches, cycle, api_client, remote_folders,
                 returned_values, folders, elapsed, Results>>

UpdateConfigStep ==
  \/ SkipFolders
  \/ ProcessFoldersOfCreate
  \/ ProcessFoldersOfMove
  \/ WaitForFolders
  \/ CreateNewHosts
  \/ WaitForBulkDiscovery
  \/ ModifyExistingHosts
  \/ DeleteHosts
  \/ MoveHosts
  \/ Phase2Activate

\* The cycles that are applied: a configuration without and one with a label
\* path template, each without and with a Chunker and service discovery, and
\* one with a host filter.
ApplyConfigs ==
  {[folder |-> "imported", host_filters |-> <<>>, host_overtake_filters |-> <<>>,
    label_path_template |-> template, label_prefix |-> "",
    chunk_size |-> chunk_size, use_service_discovery |-> discovery] :
     template \in {"", "site"}, chunk_size \in {0, 1}, discovery \in BOOLEAN}
  \cup {[folder |-> "imported", host_filters |-> <<"db">>, host_overtake_filters |-> <<>>,
         label_path_template |-> "", label_prefix |-> "",
         chunk_size |-> 0, use_service_discovery |-> TRUE]}

ApplyRecords ==
  { << <<"hostname", "Server A">>, <<"attr_owner", "infra">>, <<"tag_env", "prod">>,
       <<"ipv4", "10.0.0.5">> >>,
    << <<"hostname", "db1">>, <<"site", "dc">>, <<"ip", " 10.0.0.7 ,10.0.0.8">>,
       <<"ipv4", "10.0.0.6">> >>,
    << <<"hostname", "web1">>, <<"tag_zone", "x">> >> }

ApplyImports ==
  UNION {{hosts \in [1..n -> ApplyRecords] : \A i, j \in 1..n : hosts[i] = hosts[j] => i = j} :
           n \in 0..MaxImport}

ApplyRemotes ==
  { EmptyDict,
    [h \in {"db1"} |-> [folder |-> "/imported", attributes |-> Db1Tagged]],
    [h \in {"server_a"} |->
       [folder |-> "/imported", attributes |-> Update(ServerA, [locked_by |-> other_ident])]],
    [h \in {"server_a", "db1"} |->
       IF h = "server_a" THEN [folder |-> "/imported", attributes |-> ServerA]
       ELSE [folder |-> "/imported/dc", attributes |-> Db1]] }

\* The folders the site reports: the configured folder and the folders of
\* its hosts, without the leading slash for the HTTP API.
SiteFolders(client, hosts) ==
  {IF client = "rest" THEN folder ELSE SubSeq(folder, 2, Len(folder)) :
     folder \in {"/imported"} \cup {hosts[h].folder : h \in DOMAIN hosts}}

InitApply ==
  /\ Fetched(ApplyConfigs, ApplyRemotes, ApplyImports)
  /\ api_client \in {"http", "rest"}
  /\ remote_folders = SiteFolders(api_client, remote_hosts)

NextApply == PartitionStep \/ UpdateConfigStep

SpecApply == InitApply /\ [][NextApply]_vars

(***************************************************************************)
(* Functions called on their own                                           *)
(***************************************************************************)
MaxCalls == 2

\* The connection configurations get_folder_path is built from.
PathArguments ==
  {[function |-> "get_folder_path", folder |-> folder, label_path_template |-> template] :
     folder \in {"", "imported", "my hosts"}, template \in {"a/b", "site", "site/role"}}

\* The labels of a host: none, a value with a blank, an empty value.
LabelMaps ==
  { EmptyDict,
    [k \in {"site"} |-> "dc"],
    [k \in {"role"} |-> "db"],
    [k \in {"site", "role"} |-> IF k = "site" THEN "x y" ELSE "db"],
    [k \in {"site", "role"} |-> IF k = "site" THEN "" ELSE "web"] }

\* The tag groups of a site, two of them with ids that differ in case only.
TagArguments ==
  {[function |-> "get_tag", tags |-> create_hostlike_tags(groups)] :
     groups \in
       { <<>>,
         << [id |-> "env", tags |-> <<"prod">>] >>,
         << [id |-> "location", tags |-> <<"a">>] >>,
         << [id |-> "location", tags |-> <<"a">>], [id |-> "Location", tags |-> <<"b">>] >>,
         << [id |-> "Location", tags |-> <<"b">>], [id |-> "location", tags |-> <<"a">>] >> }}

TagNames == {"tag_location", "Tag_Location", "TAG_LOCATION", "tag_Location", "tag_zone"}

IpArguments ==
  {[function |-> "get_ip_address", host |-> host] :
     host \in { << <<"hostname", "h1">> >>,
                << <<"hostname", "h1">>, <<"ip", " 10.0.0.7 ,10.0.0.8">> >>,
                << <<"hostname", "h1">>, <<"ipv4", "10.0.0.1">>, <<"ip", "10.0.0.2">> >>,
                << <<"hostname", "h1">>, <<"ipaddress", "10.0.0.3,10.0.0.4">>,
                   <<"ip", "10.0.0.2">>, <<"ipv4", "10.0.0.1">> >> }}

InitFunctions ==
  /\ NoCycle
  /\ config = ChunkerConfig(0)
  /\ hosts_to_create = <<>>
  /\ hosts_to_modify = <<>>
  /\ hosts_to_delete = <<>>
  /\ pc = "called"
  /\ arguments \in PathArguments \cup TagArguments \cup IpArguments

\* get_folder_path(labels) of a connection with a label path template
CallGetFolderPath ==
  /\ arguments.function = "get_folder_path"
  /\ Len(results) < MaxCalls
  /\ \E labels \in LabelMaps :
       results' = Append(results, <<labels, get_folder_path(arguments, labels)>>)
  /\ UNCHANGED <<config, remote_hosts, api_supports_tags, ip_order, cmdb_hosts, cmk_tags,
                 update_ips, cmk_hosts, pc, idx, Partition, Batches, Gateway, arguments>>

\* TagMatcher(tags).get_tag(name)
CallGetTag ==
  /\ arguments.function = "get_tag"
  /\ Len(results) < MaxCalls
  /\ \E name \in TagNames :
       results' = Append(results, <<name, get_tag(arguments.tags, name)>>)
  /\ UNCHANGED <<config, remote_hosts, api_supports_tags, ip_order, cmdb_hosts, cmk_tags,
                 update_ips, cmk_hosts, pc, idx, Partition, Batches, Gateway, arguments>>

\* get_ip_address(host)
CallGetIpAddress ==
  /\ arguments.function = "get_ip_address"
  /\ Len(results) < MaxCalls
  /\ results' = Append(results, <<arguments.host, get_ip_address(arguments.host, ip_order)>>)
  /\ UNCHANGED <<config, remote_hosts, api_supports_tags, ip_order, cmdb_hosts, cmk_tags,
                 update_ips, cmk_hosts, pc, idx, Partition, Batches, Gateway, arguments>>

\* The connector runs in a new process: the strings hash differently (hash
\* randomisation), and a set of strings is iterated in another order.
NewProcess ==
  /\ arguments.function = "get_ip_address"
  /\ Len(results) < MaxCalls
  /\ ip_order' \in Orderings(IP_ATTRIBUTES) \ {ip_order}
  /\ UNCHANGED <<config, remote_hosts, api_supports_tags, cmdb_hosts, cmk_tags, update_ips,
                 cmk_hosts, pc, idx, Partition, Batches, Gateway, arguments, results>>

NextFunctions == CallGetFolderPath \/ CallGetTag \/ CallGetIpAddress \/ NewProcess

SpecFunctions == InitFunctions /\ [][NextFunctions]_vars

(***************************************************************************)
(* RestApiClient.add_folder on its own                                     *)
(***************************************************************************)
\* The nested calls the interpreter allows before it raises RecursionError
\* (scaled down).
MaxDepth == 4

\* What the site may answer to a POST: a status and, for a JSON body with a
\* "fields" key, the names of the fields it complains about.
FolderResponses ==
  { [status |-> 200, has_fields |-> FALSE, fields |-> {}],
    [status |-> 400, has_fields |-> FALSE, fields |-> {}],
    [status |-> 400, has_fields |-> TRUE, fields |-> {"name"}],
    [status |-> 400, has_fields |-> TRUE, fields |-> {"parent"}],
    [status |-> 400, has_fields |-> TRUE, fields |-> {"name", "parent"}] }

\* folder_data of add_folder(folder): rsplit(PATH_SEPERATOR, 1) and prefix_path
folder_data(folder) ==
  LET parts == Split(folder, PATH_SEPERATOR)
      path == Join(SubSeq(parts, 1, Len(parts) - 1), PATH_SEPERATOR)
      folder_name == parts[Len(parts)]
  IN [name |-> folder_name, title |-> folder_name, parent |-> prefix_path(path)]

\* add_folder is about to be called for a folder of one, two or three levels;
\* `folders` holds the folder of every frame of add_folder, the innermost last.
InitFolder ==
  /\ config = ChunkerConfig(0)
  /\ remote_hosts = EmptyDict
  /\ cmk_hosts = EmptyDict
  /\ cmdb_hosts = <<>>
  /\ api_supports_tags = TRUE
  /\ ip_order = <<"ipv4", "ip", "ipaddress">>
  /\ cmk_tags = [none |-> TRUE, tags |-> <<>>]
  /\ update_ips = FALSE
  /\ idx = 1
  /\ hosts_managed_by_plugin = {}
  /\ hosts_to_overtake = {}
  /\ unrelated_hosts = {}
  /\ hosts_to_move = <<>>
  /\ cycle = 1
  /\ api_client = "rest"
  /\ remote_folders = {}
  /\ calls = <<>>
  /\ returned_values = EmptyDict
  /\ folders = <<>>
  /\ elapsed = 0
  /\ log = <<>>
  /\ created_host_names = <<>>
  /\ modified_host_names = <<>>
  /\ deleted_host_names = <<>>
  /\ moved_host_names = <<>>
  /\ results = <<>>
  /\ hosts_to_create = <<>>
  /\ hosts_to_modify = <<>>
  /\ hosts_to_delete = <<>>
  /\ arguments \in [function : {"add_folder"}, folder : {"/imported", "/imported/lab", "/imported/lab/x"}]
  /\ pc = "called"

\* The frames after the innermost one has returned: its caller goes on with
\* the second POST, the caller of the outermost one has its answer.
ReturnOfFrame ==
  /\ folders' = SubSeq(folders, 1, Len(folders) - 1)
  /\ pc' = IF Len(folders) = 1 THEN "returned" ELSE "resubmit"

\* The call itself.
CallAddFolder ==
  /\ pc = "called"
  /\ folders' = <<arguments.folder>>
  /\ pc' = "add_folder"
  /\ UNCHANGED <<Inputs, cmk_hosts, idx, Partition, Batches, cycle, api_client, log,
                 remote_folders, calls, returned_values, elapsed, Results>>

\* The first POST of a frame and what follows from its response.
AddFolderPost ==
  /\ pc = "add_folder"
  /\ \E response \in FolderResponses :
       LET data == folder_data(folders[Len(folders)])
       IN /\ calls' = Append(calls, Call("add_folder", "post", data, response.status))
          /\ IF response.status = 400 /\ response.has_fields /\ "parent" \in response.fields
             THEN IF Len(folders) < MaxDepth
                  THEN /\ folders' = Append(folders, data.parent)
                       /\ pc' = "add_folder"
                  ELSE /\ pc' = "raised"
                       /\ UNCHANGED folders
             ELSE ReturnOfFrame
  /\ UNCHANGED <<Inputs, cmk_hosts, idx, Partition, Batches, cycle, api_client, log,
                 remote_folders, returned_values, elapsed, Results>>

\* The second POST of a frame, after add_folder(parent_path) has returned;
\* its response is not looked at.
AddFolderResubmit ==
  /\ pc = "resubmit"
  /\ \E status \in {response.status : response \in FolderResponses} :
       calls' = Append(calls, Call("add_folder", "post", folder_data(folders[Len(folders)]), status))
  /\ ReturnOfFrame
  /\ UNCHANGED <<Inputs, cmk_hosts, idx, Partition, Batches, cycle, api_client, log,
                 remote_folders, returned_values, elapsed, Results>>

NextFolder == CallAddFolder \/ AddFolderPost \/ AddFolderResubmit

SpecFolder == InitFolder /\ [][NextFolder]_vars

(***************************************************************************)
(* Properties of _partition_hosts                                          *)
(***************************************************************************)
HostsOf(tuples) == {tuples[i][1] : i \in 1..Len(tuples)}
Range(list) == {list[i] : i \in 1..Len(list)}

LockOf(h) == AttributeOf(remote_hosts[h].attributes, "locked_by")
MatchesOvertakeFilter(h) ==
  \E i \in 1..Len(config.host_overtake_filters) : StartsWith(h, config.host_overtake_filters[i])
PassesHostFilters(h) ==
  config.host_filters = <<>>
    \/ \E i \in 1..Len(config.host_filters) : StartsWith(h, config.host_filters[i])
ImportedNames == {normalize_hostname(Get(cmdb_hosts[i], hostname_field)) : i \in 1..Len(cmdb_hosts)}
RecordsOf(h) ==
  {i \in 1..Len(cmdb_hosts) : normalize_hostname(Get(cmdb_hosts[i], hostname_field)) = h}

ManagedBefore == {h \in DOMAIN remote_hosts : LockOf(h) = global_ident}
OvertakableBefore ==
  {h \in DOMAIN remote_hosts : LockOf(h) = None /\ MatchesOvertakeFilter(h)}
UnrelatedBefore == DOMAIN remote_hosts \ (ManagedBefore \cup OvertakableBefore)

\* C1: a remote host that is not locked by this connection and either matches
\* no overtake filter or is locked by another identity appears in none of
\* ToCreate, ToModify, ToMove, ToDelete, also when the import names it.
C1_UnrelatedUntouched ==
  \A h \in DOMAIN remote_hosts :
    (LockOf(h) # global_ident /\ (~MatchesOvertakeFilter(h) \/ LockOf(h) # None))
      => /\ h \notin HostsOf(hosts_to_create)
         /\ h \notin HostsOf(hosts_to_modify)
         /\ h \notin HostsOf(hosts_to_move)
         /\ h \notin Range(hosts_to_delete)

C1_Witness ==
  /\ pc = "planned"
  /\ \E h \in UnrelatedBefore \cap ImportedNames :
       PassesHostFilters(h) /\ MatchesOvertakeFilter(h)
  /\ hosts_to_modify # <<>>

\* C2: ToDelete is exactly the hosts locked by this connection before the
\* cycle minus the normalized hostnames of all imported records (the ones the
\* host filters reject too); so it holds no imported, unrelated or
\* overtakable host.
C2_DeleteExact ==
  pc = "planned" =>
    /\ Range(hosts_to_delete) = ManagedBefore \ ImportedNames
    /\ Len(hosts_to_delete) = Cardinality(Range(hosts_to_delete))
    /\ Range(hosts_to_delete) \cap (UnrelatedBefore \cup OvertakableBefore) = {}

C2_Witness ==
  /\ pc = "planned"
  /\ hosts_to_delete # <<>>
  /\ \E h \in ManagedBefore \cap ImportedNames : ~PassesHostFilters(h)

\* C4 as claimed: no hostname is in more than one of the four batches.
C4_PairwiseDisjoint ==
  /\ HostsOf(hosts_to_create) \cap HostsOf(hosts_to_modify) = {}
  /\ HostsOf(hosts_to_create) \cap HostsOf(hosts_to_move) = {}
  /\ HostsOf(hosts_to_create) \cap Range(hosts_to_delete) = {}
  /\ HostsOf(hosts_to_modify) \cap HostsOf(hosts_to_move) = {}
  /\ HostsOf(hosts_to_modify) \cap Range(hosts_to_delete) = {}
  /\ HostsOf(hosts_to_move) \cap Range(hosts_to_delete) = {}

\* C4 amended: ToCreate, ToDelete and the union of ToModify and ToMove are
\* pairwise disjoint by hostname; ToModify and ToMove may share a host.
C4_DisjointButModifyMove ==
  /\ HostsOf(hosts_to_create) \cap HostsOf(hosts_to_modify) = {}
  /\ HostsOf(hosts_to_create) \cap HostsOf(hosts_to_move) = {}
  /\ HostsOf(hosts_to_create) \cap Range(hosts_to_delete) = {}
  /\ HostsOf(hosts_to_modify) \cap Range(hosts_to_delete) = {}
  /\ HostsOf(hosts_to_move) \cap Range(hosts_to_delete) = {}

C4_Witness ==
  /\ pc = "planned"
  /\ HostsOf(hosts_to_modify) \cap HostsOf(hosts_to_move) # {}
  /\ hosts_to_create # <<>> \/ hosts_to_delete # <<>>

\* The import and the remote state of the end-to-end create example.
ExampleRecord ==
  << <<"hostname", "Server A">>, <<"attr_owner", "infra">>, <<"tag_env", "prod">>,
     <<"ipv4", "10.0.0.5">> >>
CreateExample ==
  /\ cmdb_hosts = <<ExampleRecord>>
  /\ DOMAIN remote_hosts = {}
  /\ ~cmk_tags.none
  /\ config.host_filters = <<>>
  /\ config.label_path_template = ""
  /\ pc = "planned"
ExampleAttributes(tag_key) ==
  [k \in {"labels", "locked_by", "ipaddress", tag_key, "owner"} |->
     CASE k = "labels" -> EmptyDict
       [] k = "locked_by" -> "plugin/file1"
       [] k = "ipaddress" -> "10.0.0.5"
       [] k = "owner" -> "infra"
       [] OTHER -> "prod"]
CreateExampleResult(tag_key) ==
  /\ hosts_to_create = << <<"server_a", config.folder, ExampleAttributes(tag_key)>> >>
  /\ hosts_to_modify = <<>>
  /\ hosts_to_move = <<>>
  /\ hosts_to_delete = <<>>

\* C8 as claimed: the create example returns one creation tuple for server_a
\* in the configured folder whose attributes are exactly labels, locked_by,
\* ipaddress, env and owner, the tag stored under the key env.
C8_CreateExampleEnv == CreateExample => CreateExampleResult("env")

\* C8 amended: the create example returns one creation tuple for server_a in
\* the configured folder whose attributes are exactly labels = {}, locked_by =
\* the identity, ipaddress = 10.0.0.5, tag_env = prod and owner = infra (the
\* tag is stored under the tag group id with the tag_ prefix), and ToModify,
\* ToMove and ToDelete are empty.
C8_CreateExampleTagEnv == CreateExample => CreateExampleResult("tag_env")

C8_Witness == CreateExample /\ Len(hosts_to_create) = 1 /\ config.folder = "imported"

\* The four reasons of C9 for record i of the import against the remote host h
\* as fetched.
AttributeDiffers(h, i) ==
  LET imported == get_host_attributes(cmdb_hosts[i])
      remote == remote_hosts[h].attributes
  IN \E k \in DOMAIN imported : k \notin DOMAIN remote \/ remote[k] # imported[k]
LabelDiffers(h, i) ==
  LET imported == add_prefix_to_labels(get_host_label(cmdb_hosts[i], hostname_field),
                                       config.label_prefix)
      remote == remote_hosts[h].attributes.labels
  IN \E k \in DOMAIN imported : k \notin DOMAIN remote \/ remote[k] # imported[k]
TagDiffers(h, i) ==
  /\ ~cmk_tags.none
  /\ LET imported == ImportedTags(cmk_tags, cmdb_hosts[i])
         remote == remote_hosts[h].attributes
     IN \E k \in DOMAIN imported : k \notin DOMAIN remote \/ remote[k] # imported[k]
IpDiffers(h, i) ==
  /\ update_ips
  /\ get_ip_address(cmdb_hosts[i], ip_order) # AttributeOf(remote_hosts[h].attributes, "ipaddress")

\* C9: a managed remote host that is in the import and passes the host
\* filters has a ToModify tuple if and only if an imported attribute, label,
\* tag (tag support enabled) or IP (syncIPs) is absent on or differs from the
\* remote host; remote owner = infra with attr_owner = ops gives one tuple
\* setting owner = ops with an empty unset list.
C9_ModifyIffChanged ==
  pc = "planned" =>
    /\ \A h \in ManagedBefore \cap ImportedNames :
         PassesHostFilters(h) =>
           (h \in HostsOf(hosts_to_modify)
              <=> \E i \in RecordsOf(h) :
                    \/ AttributeDiffers(h, i)
                    \/ LabelDiffers(h, i)
                    \/ TagDiffers(h, i)
                    \/ IpDiffers(h, i))
    /\ \A h \in ManagedBefore :
         (/\ Cardinality(RecordsOf(h)) = 1
          /\ PassesHostFilters(h)
          /\ AttributeOf(remote_hosts[h].attributes, "owner") = "infra"
          /\ \A i \in RecordsOf(h) :
               /\ AttributeOf(get_host_attributes(cmdb_hosts[i]), "owner") = "ops"
               /\ ~fields_contain_ip_addresses(FieldNames(cmdb_hosts)))
           => \E j \in 1..Len(hosts_to_modify) :
                /\ hosts_to_modify[j][1] = h
                /\ hosts_to_modify[j][2].owner = "ops"
                /\ hosts_to_modify[j][3] = <<>>
                /\ \A l \in 1..Len(hosts_to_modify) : hosts_to_modify[l][1] = h => l = j

\* C10: at the end of a partition, every remote host without locked_by whose
\* name matches an overtake filter and that is imported and passes the host
\* filters has a ToModify tuple, and all its tuples set locked_by to the
\* identity; a remote host locked by another identity never has a ToModify
\* tuple and keeps its locked_by.
C10_Overtake ==
  /\ pc = "planned" =>
       \A h \in OvertakableBefore \cap ImportedNames :
         PassesHostFilters(h) =>
           /\ h \in HostsOf(hosts_to_modify)
           /\ \A j \in 1..Len(hosts_to_modify) :
                hosts_to_modify[j][1] = h => hosts_to_modify[j][2].locked_by = global_ident
  /\ \A h \in DOMAIN remote_hosts :
       LockOf(h) \notin {None, global_ident} =>
         /\ h \notin HostsOf(hosts_to_modify)
         /\ h \in DOMAIN cmk_hosts
         /\ AttributeOf(cmk_hosts[h].attributes, "locked_by") = LockOf(h)

C10_Witness ==
  /\ pc = "planned"
  /\ \E h \in OvertakableBefore :
       /\ PassesHostFilters(h)
       /\ RecordsOf(h) # {}
       /\ \A i \in RecordsOf(h) :
            /\ ~AttributeDiffers(h, i) /\ ~LabelDiffers(h, i)
            /\ ~cmk_tags.none /\ ~TagDiffers(h, i)
            /\ update_ips /\ ~IpDiffers(h, i)
       /\ h \in HostsOf(hosts_to_modify)

(***************************************************************************)
(* Properties of two cycles                                                *)
(***************************************************************************)
\* C3: when the batches of a cycle have been applied completely and the next
\* cycle reconciles the same import under the same configuration, ToCreate,
\* ToModify, ToMove and ToDelete are all empty.
C3_Idempotent ==
  (cycle = 2 /\ pc = "planned") =>
    /\ hosts_to_create = <<>>
    /\ hosts_to_modify = <<>>
    /\ hosts_to_move = <<>>
    /\ hosts_to_delete = <<>>

(***************************************************************************)
(* Properties of the Chunker                                               *)
(***************************************************************************)
IsActivation(call) == call.op = "activate_changes"
GatewayCalls == SelectSeq(calls, LAMBDA call : ~IsActivation(call))
Activations == SelectSeq(calls, IsActivation)

\* The consecutive groups of size k of a batch, the last one shorter if need be.
ConsecutiveGroups(batch, k) ==
  [g \in 1..((Len(batch) + k - 1) \div k) |->
     SubSeq(batch, (g - 1) * k + 1, Min({g * k, Len(batch)}))]

ChunkedInGroups ==
  /\ Len(GatewayCalls) = (Len(hosts_to_delete) + config.chunk_size - 1) \div config.chunk_size
  /\ [g \in 1..Len(GatewayCalls) |-> GatewayCalls[g].arg]
       = ConsecutiveGroups(hosts_to_delete, config.chunk_size)
  /\ \A g \in 1..Len(GatewayCalls) :
       /\ GatewayCalls[g].arg # <<>>
       /\ Len(GatewayCalls[g].arg) = config.chunk_size \/ g = Len(GatewayCalls)
  /\ \A i \in 1..Len(calls) : IsActivation(calls[i]) => i > 1 /\ ~IsActivation(calls[i - 1])

Rank(op) ==
  CASE op = "add_hosts" -> 1
    [] op = "modify_hosts" -> 2
    [] op = "delete_hosts" -> 3
    [] op = "move_host" -> 4

IsMutation(call) == call.op \in {"add_hosts", "modify_hosts", "delete_hosts", "move_host"}

CallsBy(category) == SelectSeq(calls, LAMBDA call : call.by = category)
CallsOf(ops) == SelectSeq(calls, LAMBDA call : call.op \in ops)

\* C6: the host mutations of one apply come in the order add_hosts,
\* modify_hosts, delete_hosts, move_host, and a category whose batch is empty
\* issues no remote call: no mutation, no activation, no discovery.
C6_ApplyOrder ==
  /\ \A i, j \in 1..Len(calls) :
       (i < j /\ IsMutation(calls[i]) /\ IsMutation(calls[j]))
         => Rank(calls[i].op) <= Rank(calls[j].op)
  /\ pc \in {"create", "modify", "delete", "move", "updated", "done"} =>
       /\ hosts_to_create = <<>> =>
            /\ CallsBy("create") = <<>>
            /\ CallsOf({"add_hosts", "discover_services", "is_discovery_running"}) = <<>>
       /\ hosts_to_modify = <<>> =>
            CallsBy("modify") = <<>> /\ CallsOf({"modify_hosts"}) = <<>>
       /\ hosts_to_delete = <<>> =>
            CallsBy("delete") = <<>> /\ CallsOf({"delete_hosts"}) = <<>>
       /\ hosts_to_move = <<>> =>
            CallsBy("move") = <<>> /\ CallsOf({"move_host"}) = <<>>
       /\ (hosts_to_create = <<>> /\ hosts_to_modify = <<>> /\ hosts_to_delete = <<>>
             /\ hosts_to_move = <<>>)
            => \A i \in 1..Len(calls) : calls[i].op = "get_folders"

C6_Witness ==
  /\ pc = "done"
  /\ config.chunk_size = 1
  /\ hosts_to_create # <<>>
  /\ Len(hosts_to_modify) = 1
  /\ hosts_to_delete # <<>>
  /\ hosts_to_move # <<>>
  /\ \E i, j, k, l \in 1..Len(calls) :
       /\ i < j /\ j < k /\ k < l
       /\ calls[i].op = "add_hosts"
       /\ calls[j].op = "modify_hosts"
       /\ calls[k].op = "delete_hosts"
       /\ calls[l].op = "move_host"

\* The folder of a tuple as the API client names it.
FolderOf(tuple) == IF api_client = "rest" THEN prefix_path(tuple[2]) ELSE tuple[2]

\* The folders of ToCreate and ToMove that get_folders did not report.
MissingFolders ==
  ({FolderOf(hosts_to_create[i]) : i \in 1..Len(hosts_to_create)}
     \cup {FolderOf(hosts_to_move[i]) : i \in 1..Len(hosts_to_move)})
    \ SiteFolders(api_client, remote_hosts)

\* The cycle ended with an exception after planning and before any host call,
\* and not because the site refused an activation.
FolderStepFailed ==
  /\ pc = "failed"
  /\ idx > Len(cmdb_hosts)
  /\ \A i \in 1..Len(calls) :
       ~IsMutation(calls[i]) /\ ~(calls[i].op = "activate_changes" /\ calls[i].ret.raised)

\* C7: with a label path template the folder step runs to completion, and
\* add_folder has been called for every folder of a ToCreate or ToMove tuple
\* that get_folders did not report before the first add_hosts or move_host
\* call, whether ToCreate and ToMove are empty or not.
C7_FoldersBeforeHosts ==
  ~Falsy(config.label_path_template) =>
    /\ ~FolderStepFailed
    /\ \A j \in 1..Len(calls) :
         calls[j].op \in {"add_hosts", "move_host"} =>
           \A folder \in MissingFolders :
             \E i \in 1..(j - 1) : calls[i].op = "add_folder" /\ calls[i].arg = folder

(***************************************************************************)
(* Properties of the move decision                                         *)
(***************************************************************************)
\* The path a record asks for: the configured folder, or with a label path
\* template the path of the record's labels.
DesiredPath(record) ==
  IF config.label_path_template = "" THEN config.folder
  ELSE get_folder_path(config, get_host_label(record, hostname_field))

ExistsAsOurs(h) == h \in ManagedBefore \cup OvertakableBefore

\* C11: for every record whose host exists remotely as managed or overtakable
\* and passes the host filters, ToMove holds (hostname, desiredPath) exactly
\* when "/" + desiredPath differs from the folder of the remote host, whether
\* or not a ToModify tuple was emitted for the host; ToMove holds no other
\* tuple.
C11_MoveIffFolderDiffers ==
  pc \in {"records", "planned"} =>
    /\ \A i \in 1..Len(cmdb_hosts) :
         LET h == normalize_hostname(Get(cmdb_hosts[i], hostname_field))
         IN (i < idx /\ ExistsAsOurs(h) /\ PassesHostFilters(h)) =>
              (<<h, DesiredPath(cmdb_hosts[i])>> \in Range(hosts_to_move)
                 <=> remote_hosts[h].folder # "/" \o DesiredPath(cmdb_hosts[i]))
    /\ \A j \in 1..Len(hosts_to_move) :
         \E i \in 1..Len(cmdb_hosts) :
           /\ i < idx
           /\ hosts_to_move[j] =
                <<normalize_hostname(Get(cmdb_hosts[i], hostname_field)),
                  DesiredPath(cmdb_hosts[i])>>
           /\ ExistsAsOurs(hosts_to_move[j][1])
           /\ PassesHostFilters(hosts_to_move[j][1])
           /\ remote_hosts[hosts_to_move[j][1]].folder # "/" \o hosts_to_move[j][2]

C11_Witness ==
  /\ pc = "planned"
  /\ \E h \in HostsOf(hosts_to_move) : h \notin HostsOf(hosts_to_modify)
  /\ \E h \in HostsOf(hosts_to_modify) : h \notin HostsOf(hosts_to_move)

(***************************************************************************)
(* Properties of the functions called on their own                         *)
(***************************************************************************)
\* The segments the path of a host consists of: the root folder if one is
\* configured, then one per key of the template.
ExpectedSegments(folder, keys, labels) ==
  (IF folder # "" THEN <<folder>> ELSE <<>>)
    \o [k \in 1..Len(keys) |->
          IF keys[k] \in DOMAIN labels /\ labels[keys[k]] # "" THEN labels[keys[k]]
          ELSE "undefined"]

\* C12: the folder path of a host has one segment per configured key, in key
\* order: the label value when the label is present and non-empty, otherwise
\* "undefined" (an empty label map gives "undefined" for every key); the
\* configured root folder comes first; blanks become "_"; the segments are
\* joined by "/"; equal inputs give equal paths.
C12_FolderPath ==
  arguments.function = "get_folder_path" =>
    \A i \in 1..Len(results) :
      LET labels == results[i][1]
          keys == Split(arguments.label_path_template, "/")
          segments == ExpectedSegments(arguments.folder, keys, labels)
      IN /\ results[i][2] = Join([k \in 1..Len(segments) |-> Replace(segments[k], " ", "_")], "/")
         /\ Len(Split(results[i][2], "/")) = Len(keys) + (IF arguments.folder # "" THEN 1 ELSE 0)
         /\ labels = EmptyDict =>
              \A k \in 1..Len(keys) :
                Split(results[i][2], "/")[Len(Split(results[i][2], "/")) - Len(keys) + k]
                  = "undefined"
         /\ ~Contains(results[i][2], " ")
         /\ \A j \in 1..Len(results) : results[j][1] = labels => results[j][2] = results[i][2]

C12_Witness ==
  /\ arguments.function = "get_folder_path"
  /\ arguments.folder = "my hosts"
  /\ arguments.label_path_template = "site/role"
  /\ Len(results) = 2
  /\ results[1] = <<EmptyDict, "my_hosts/undefined/undefined">>
  /\ results[2][1] = [k \in {"site", "role"} |-> IF k = "site" THEN "" ELSE "web"]
  /\ results[2][2] = "my_hosts/undefined/web"

\* The identifiers of the catalog that equal the name when case is ignored.
CaselessIds(tags, name) == {id \in Keys(tags) : Lower(id) = Lower(name)}

PositionOf(tags, id) == CHOOSE i \in 1..Len(tags) : tags[i][1] = id

\* Exact first, ignoring case second, else the unknown-tag error.
ResolvesExactThenCaseless(tags, name, resolved) ==
  /\ name \in Keys(tags) => resolved = name
  /\ (name \notin Keys(tags) /\ CaselessIds(tags, name) # {}) =>
       /\ resolved \in CaselessIds(tags, name)
       /\ \A id \in CaselessIds(tags, name) : PositionOf(tags, id) <= PositionOf(tags, resolved)
  /\ CaselessIds(tags, name) = {} => resolved = None

\* C13 as claimed: a name that is a catalog identifier resolves to itself,
\* another name to an identifier equal to it ignoring case, a name that
\* equals no identifier in any casing fails; and two spellings that differ
\* only in case resolve to the same identifier.
C13_SameIdentifierForEverySpelling ==
  arguments.function = "get_tag" =>
    /\ \A i \in 1..Len(results) :
         ResolvesExactThenCaseless(arguments.tags, results[i][1], results[i][2])
    /\ \A i, j \in 1..Len(results) :
         Lower(results[i][1]) = Lower(results[j][1]) => results[i][2] = results[j][2]

\* C13 amended: exact first, then the last identifier of the catalog that
\* equals the name ignoring case, else the error; two spellings that differ
\* only in case resolve to the same identifier when at most one identifier
\* of the catalog equals them ignoring case, or when neither spelling is
\* itself an identifier.
C13_ExactThenCaseless ==
  arguments.function = "get_tag" =>
    /\ \A i \in 1..Len(results) :
         ResolvesExactThenCaseless(arguments.tags, results[i][1], results[i][2])
    /\ \A i, j \in 1..Len(results) :
         (/\ Lower(results[i][1]) = Lower(results[j][1])
          /\ \/ Cardinality(CaselessIds(arguments.tags, results[i][1])) <= 1
             \/ (results[i][1] \notin Keys(arguments.tags)
                   /\ results[j][1] \notin Keys(arguments.tags)))
           => results[i][2] = results[j][2]

C13_Witness ==
  /\ arguments.function = "get_tag"
  /\ Keys(arguments.tags) = {"tag_location"}
  /\ Len(results) = 2
  /\ results[1] = <<"Tag_Location", "tag_location">>
  /\ results[2] = <<"tag_location", "tag_location">>

\* C14: get_ip_address returns the value of the populated IP field that comes
\* first in one fixed candidate order, the same on every call and in every
\* run for the same record, cut at the first comma and trimmed, and no IP for
\* a record without an IP field.
C14_FixedCandidateOrder ==
  arguments.function = "get_ip_address" =>
    /\ \A i \in 1..Len(results) :
         LET host == results[i][1]
             populated == Keys(host) \cap IP_ATTRIBUTES
         IN IF populated = {} THEN results[i][2] = None
            ELSE \E field \in populated :
                   results[i][2] = Strip(Split(Get(host, field), ",")[1])
    /\ \A i, j \in 1..Len(results) :
         results[i][1] = results[j][1] => results[i][2] = results[j][2]

(***************************************************************************)
(* Properties of the activation and of the chunked results                 *)
(***************************************************************************)
Phase2Activations ==
  SelectSeq(calls, LAMBDA call : call.by = "phase2" /\ call.op = "activate_changes")

AnyCategoryChanged ==
  \/ created_host_names # <<>>
  \/ modified_host_names # <<>>
  \/ deleted_host_names # <<>>
  \/ moved_host_names # <<>>

\* C15: after the four categories the final step of phase 2 calls
\* activate_changes exactly once if a category reported a changed host and
\* the gateway requires activation (no Chunker), and not at all otherwise.
C15_FinalActivation ==
  /\ pc \notin {"done", "failed"} => Phase2Activations = <<>>
  /\ pc = "failed" => (Phase2Activations # <<>> => calls[Len(calls)].ret.raised)
  /\ (pc = "done" \/ Phase2Activations # <<>>) =>
       IF AnyCategoryChanged /\ config.chunk_size = 0
       THEN /\ Len(Phase2Activations) = 1
            /\ calls[Len(calls)].by = "phase2"
       ELSE Phase2Activations = <<>>

C15_Witness ==
  /\ pc = "done"
  /\ config.chunk_size = 0
  /\ created_host_names = <<>>
  /\ modified_host_names = <<>>
  /\ deleted_host_names = <<>>
  /\ moved_host_names # <<>>
  /\ Len(Phase2Activations) = 1

RECURSIVE Flatten(_)
Flatten(lists) == IF lists = <<>> THEN <<>> ELSE Head(lists) \o Flatten(Tail(lists))

\* What the groups of one chunked add_hosts or modify_hosts returned.
GroupsOf(op) == SelectSeq(calls, LAMBDA call : call.op = op)
Answered(groups) == SelectSeq(groups, LAMBDA call : DOMAIN call.ret # {})

Accumulated(op, batch, reported) ==
  LET groups == GroupsOf(op)
      answered == Answered(groups)
  IN /\ Len(groups) = (Len(batch) + config.chunk_size - 1) \div config.chunk_size
     /\ Flatten([g \in 1..Len(groups) |-> groups[g].arg]) = Names(batch)
     /\ returned_values.succeeded_hosts
          = Flatten([g \in 1..Len(answered) |-> answered[g].ret.succeeded_hosts])
     /\ DOMAIN returned_values.failed_hosts
          = UNION {DOMAIN answered[g].ret.failed_hosts : g \in 1..Len(answered)}
     /\ reported = returned_values.succeeded_hosts
     /\ \A h \in DOMAIN returned_values.failed_hosts : h \notin Range(reported)

\* C16: a chunked add_hosts or modify_hosts submits every group, also after
\* groups that reported failed hosts; the combined result has the
\* concatenation of the groups' succeeded lists and the union of their
\* failed maps, and only the succeeded hostnames are reported as created or
\* modified.
C16_ChunkedResultsAccumulate ==
  config.chunk_size # 0 =>
    /\ (pc = "modify" /\ hosts_to_create # <<>>) =>
         Accumulated("add_hosts", hosts_to_create, created_host_names)
    /\ (pc = "delete" /\ hosts_to_modify # <<>>) =>
         Accumulated("modify_hosts", hosts_to_modify, modified_host_names)

C16_Witness ==
  /\ pc = "modify"
  /\ config.chunk_size = 1
  /\ Len(hosts_to_create) = 2
  /\ Len(GroupsOf("add_hosts")) = 2
  /\ GroupsOf("add_hosts")[1].ret.failed_hosts # EmptyDict
  /\ GroupsOf("add_hosts")[2].ret.succeeded_hosts # <<>>
  /\ created_host_names = <<hosts_to_create[2][1]>>
  /\ DOMAIN returned_values.failed_hosts = {hosts_to_create[1][1]}

\* A remote mutation that succeeded.
Succeeded(call) ==
  CASE call.op \in {"add_hosts", "modify_hosts"} ->
         DOMAIN call.ret # {} /\ call.ret.succeeded_hosts # <<>>
    [] call.op = "delete_hosts" -> TRUE
    [] call.op = "move_host" -> call.ret.result
    [] OTHER -> FALSE

\* C17: in a completed cycle activate_changes is called after the last remote
\* mutation that succeeded, for chunk size 0 and for every chunk size > 0,
\* also when the only change is a host move.
C17_ActivationAfterLastMutation ==
  pc = "done" =>
    \A i \in 1..Len(calls) :
      Succeeded(calls[i]) =>
        \E j \in (i + 1)..Len(calls) : calls[j].op = "activate_changes"

IsMutatingCall(call) ==
  call.op \in {"add_folder", "add_hosts", "modify_hosts", "delete_hosts", "move_host",
               "activate_changes"}

PlanningFailed == pc = "failed" /\ idx <= Len(cmdb_hosts)

\* C18: the four batches are computed before the first mutating remote call:
\* when planning fails (an imported tag name resolves to no tag group), no
\* add_folder, add_hosts, modify_hosts, delete_hosts, move_host or
\* activate_changes call has been made in the cycle.
C18_PlanBeforeMutation ==
  /\ PlanningFailed => \A i \in 1..Len(calls) : ~IsMutatingCall(calls[i])
  /\ (\E i \in 1..Len(calls) : IsMutatingCall(calls[i])) =>
       /\ idx > Len(cmdb_hosts)
       /\ pc \notin {"fetched", "records"}

C18_Witness ==
  /\ PlanningFailed
  /\ RaisesUnknownTag(cmk_tags, cmdb_hosts[idx])
  /\ hosts_to_create # <<>>
  /\ calls = <<>>

(***************************************************************************)
(* Properties of the imported tags and attributes                          *)
(***************************************************************************)
NameOf(record) == normalize_hostname(Get(record, hostname_field))

\* The record is the last one processed so far that names its host.
LastProcessedOf(i) ==
  /\ i < idx
  /\ \A j \in (i + 1)..(idx - 1) : NameOf(cmdb_hosts[j]) # NameOf(cmdb_hosts[i])

\* The tags of a record whose value is no choice of the tag group the name
\* resolves to, as <<tag group, value>>; a record names a tag group once.
OffendingTags(record) ==
  LET host_tags == get_host_tags(record)
  IN {<<get_tag(cmk_tags.tags, host_tags[k][1]), host_tags[k][2]>> :
        k \in {n \in 1..Len(host_tags) :
                 /\ get_tag(cmk_tags.tags, host_tags[n][1]) # None
                 /\ \A v \in 1..Len(Get(cmk_tags.tags, get_tag(cmk_tags.tags, host_tags[n][1]))) :
                      Get(cmk_tags.tags, get_tag(cmk_tags.tags, host_tags[n][1]))[v]
                        # host_tags[n][2]}}

Carries(attributes, offending) ==
  \A tag \in offending : tag[1] \in DOMAIN attributes /\ attributes[tag[1]] = tag[2]

C20_LockedByConnection ==
  /\ \A t \in 1..Len(hosts_to_create) :
       /\ hosts_to_create[t][3].locked_by = global_ident
       /\ "meta_data" \notin DOMAIN hosts_to_create[t][3]
       /\ \E i \in 1..Len(cmdb_hosts) :
            /\ NameOf(cmdb_hosts[i]) = hosts_to_create[t][1]
            /\ hosts_to_create[t][3].labels
                 = add_prefix_to_labels(get_host_label(cmdb_hosts[i], hostname_field),
                                        config.label_prefix)
  /\ \A t \in 1..Len(hosts_to_modify) :
       /\ "locked_by" \in DOMAIN hosts_to_modify[t][2]
       /\ hosts_to_modify[t][2].locked_by = global_ident
  /\ (cycle = 2 /\ pc = "fetched") =>
       \A h \in HostsOf(hosts_to_create) \cup HostsOf(hosts_to_modify) :
         /\ h \in DOMAIN remote_hosts
         /\ Ownership(h, remote_hosts[h], config.host_overtake_filters) = "managed"
  /\ (cycle = 2 /\ pc \in {"records", "planned"}) =>
       \A h \in DOMAIN remote_hosts :
         AttributeOf(remote_hosts[h].attributes, "locked_by") = global_ident
           => h \in hosts_managed_by_plugin

C20_Witness ==
  /\ cycle = 2
  /\ pc = "fetched"
  /\ \E t \in 1..Len(hosts_to_create) :
       \E i \in 1..Len(cmdb_hosts) :
         /\ NameOf(cmdb_hosts[i]) = hosts_to_create[t][1]
         /\ "attr_locked_by" \in Keys(cmdb_hosts[i])
         /\ remote_hosts[hosts_to_create[t][1]].attributes.locked_by = global_ident
  /\ hosts_to_modify # <<>>

(***************************************************************************)
(* Properties of the tuples of one host                                    *)
(***************************************************************************)
NoNameTwice(tuples) ==
  \A i, j \in 1..Len(tuples) : tuples[i][1] = tuples[j][1] => i = j

\* C21: each hostname occurs at most once within ToCreate, at most once
\* within ToModify and at most once within ToMove, also when several records
\* of the import have hostnames that normalize to the same name.
C21_HostnameOncePerBatch ==
  /\ NoNameTwice(hosts_to_create)
  /\ NoNameTwice(hosts_to_modify)
  /\ NoNameTwice(hosts_to_move)

\* C22: in every ToModify tuple no attribute name is both among the
\* attributes to set and among the attributes to unset; "ipaddress" listed
\* for unset is not also an attribute of the tuple.
C22_SetAndUnsetDisjoint ==
  \A t \in 1..Len(hosts_to_modify) :
    \A k \in 1..Len(hosts_to_modify[t][3]) :
      hosts_to_modify[t][3][k] \notin DOMAIN hosts_to_modify[t][2]

(***************************************************************************)
(* Properties of the modification tuple                                    *)
(***************************************************************************)
\* The one record that names the host of a tuple; tuples of a host that
\* several records name share one attributes dict (C21).
NamedOnce(h) == Cardinality(RecordsOf(h)) = 1
RecordOf(h) == cmdb_hosts[CHOOSE i \in RecordsOf(h) : TRUE]

ImportedIp(record) == get_ip_address(record, ip_order)
RemoteIp(h) == AttributeOf(remote_hosts[h].attributes, "ipaddress")
HasIpAttribute(record) == "ipaddress" \in DOMAIN get_host_attributes(record)

\* A reason for a tuple other than the IP, as update_needed finds it.
ReasonBesidesIp(h, record) ==
  \/ h \in hosts_to_overtake
  \/ needs_modification(clean_cmk_attributes(remote_hosts[h].attributes),
                        get_host_attributes(record))
  \/ needs_modification(ManagedApiLabel(remote_hosts[h].attributes.labels, config.label_prefix),
                        add_prefix_to_labels(get_host_label(record, hostname_field),
                                             config.label_prefix))
  \/ (~cmk_tags.none /\ needs_modification(get_api_tags(remote_hosts[h].attributes),
                                           ImportedTags(cmk_tags, record)))

\* With syncIPs false the decision does not look at the IP.
NoTupleForIpAlone ==
  (pc = "planned" /\ ~update_ips) =>
    \A h \in HostsOf(hosts_to_modify) : NamedOnce(h) => ReasonBesidesIp(h, RecordOf(h))

\* C23 as stated: in a ToModify tuple with syncIPs true the ipaddress is the
\* imported IP, or "ipaddress" is to unset when the import has none and the
\* remote host has one; with syncIPs false the remote ipaddress is neither
\* changed nor unset and an IP difference alone causes no tuple.
C23_IpOnlyWithSyncIps ==
  /\ \A t \in 1..Len(hosts_to_modify) :
       LET h == hosts_to_modify[t][1]
       IN NamedOnce(h) =>
            /\ (update_ips /\ ImportedIp(RecordOf(h)) # None) =>
                 AttributeOf(hosts_to_modify[t][2], "ipaddress") = ImportedIp(RecordOf(h))
            /\ (update_ips /\ ImportedIp(RecordOf(h)) = None /\ RemoteIp(h) # None) =>
                 "ipaddress" \in Range(hosts_to_modify[t][3])
            /\ ~update_ips =>
                 /\ hosts_to_modify[t][3] = <<>>
                 /\ AttributeOf(hosts_to_modify[t][2], "ipaddress") = RemoteIp(h)
  /\ NoTupleForIpAlone

\* C23, amended: an attr_ipaddress field of the record is applied after the
\* IP and wins, with syncIPs true and false; otherwise as stated.
C23_IpUnlessAttribute ==
  /\ \A t \in 1..Len(hosts_to_modify) :
       LET h == hosts_to_modify[t][1]
       IN NamedOnce(h) =>
            /\ HasIpAttribute(RecordOf(h)) =>
                 AttributeOf(hosts_to_modify[t][2], "ipaddress")
                   = get_host_attributes(RecordOf(h)).ipaddress
            /\ (update_ips /\ ImportedIp(RecordOf(h)) # None /\ ~HasIpAttribute(RecordOf(h))) =>
                 /\ AttributeOf(hosts_to_modify[t][2], "ipaddress") = ImportedIp(RecordOf(h))
                 /\ hosts_to_modify[t][3] = <<>>
            /\ (update_ips /\ ImportedIp(RecordOf(h)) = None /\ RemoteIp(h) # None) =>
                 "ipaddress" \in Range(hosts_to_modify[t][3])
            /\ ~update_ips =>
                 /\ hosts_to_modify[t][3] = <<>>
                 /\ ~HasIpAttribute(RecordOf(h)) =>
                      AttributeOf(hosts_to_modify[t][2], "ipaddress") = RemoteIp(h)
  /\ NoTupleForIpAlone

\* A cycle with syncIPs true that sets the IP of one host and asks to unset
\* the IP of another.
C23_Witness ==
  /\ pc = "planned"
  /\ update_ips
  /\ \E t, u \in 1..Len(hosts_to_modify) :
       /\ NamedOnce(hosts_to_modify[t][1]) /\ NamedOnce(hosts_to_modify[u][1])
       /\ ~HasIpAttribute(RecordOf(hosts_to_modify[t][1]))
       /\ ImportedIp(RecordOf(hosts_to_modify[t][1])) # None
       /\ RemoteIp(hosts_to_modify[t][1]) \notin {None, ImportedIp(RecordOf(hosts_to_modify[t][1]))}
       /\ hosts_to_modify[t][2].ipaddress = ImportedIp(RecordOf(hosts_to_modify[t][1]))
       /\ hosts_to_modify[u][3] = <<"ipaddress">>

\* The labels of a record as the connection imports them: every key with the
\* label prefix in front.
PrefixedLabels(record) ==
  LET labels == get_host_label(record, hostname_field)
  IN [k \in {config.label_prefix \o key : key \in DOMAIN labels} |->
        labels[SubSeq(k, Len(config.label_prefix) + 1, Len(k))]]

RemoteLabels(h) == remote_hosts[h].attributes.labels

\* An imported label is absent from the remote labels with the prefix, or
\* differs there.
LabelReason(h, record) ==
  \E k \in DOMAIN PrefixedLabels(record) :
    \/ k \notin {l \in DOMAIN RemoteLabels(h) : StartsWith(l, config.label_prefix)}
    \/ RemoteLabels(h)[k] # PrefixedLabels(record)[k]

ReasonBesidesLabels(h, record) ==
  \/ h \in hosts_to_overtake
  \/ needs_modification(clean_cmk_attributes(remote_hosts[h].attributes),
                        get_host_attributes(record))
  \/ (~cmk_tags.none /\ needs_modification(get_api_tags(remote_hosts[h].attributes),
                                           ImportedTags(cmk_tags, record)))
  \/ (update_ips /\ RemoteIp(h) # ImportedIp(record))

\* C24: the labels of a ToModify tuple are the remote labels overlaid with
\* the imported labels, the imported value winning; with a label prefix only
\* the remote labels with the prefix decide on the modification, and every
\* remote label without the prefix is in the tuple with its value.
C24_LabelsMerged ==
  /\ \A t \in 1..Len(hosts_to_modify) :
       LET h == hosts_to_modify[t][1]
           labels == hosts_to_modify[t][2].labels
       IN NamedOnce(h) =>
            /\ DOMAIN labels = DOMAIN RemoteLabels(h) \cup DOMAIN PrefixedLabels(RecordOf(h))
            /\ \A k \in DOMAIN labels :
                 labels[k] = IF k \in DOMAIN PrefixedLabels(RecordOf(h))
                             THEN PrefixedLabels(RecordOf(h))[k]
                             ELSE RemoteLabels(h)[k]
            /\ config.label_prefix # "" =>
                 \A k \in DOMAIN RemoteLabels(h) :
                   ~StartsWith(k, config.label_prefix) =>
                     k \in DOMAIN labels /\ labels[k] = RemoteLabels(h)[k]
  /\ pc = "planned" =>
       \A h \in ManagedBefore \cap ImportedNames :
         (NamedOnce(h) /\ PassesHostFilters(h) /\ ~ReasonBesidesLabels(h, RecordOf(h))) =>
           (h \in HostsOf(hosts_to_modify) <=> LabelReason(h, RecordOf(h)))

\* With a label prefix: a tuple in which an imported label replaced a remote
\* value and the remote labels without the prefix are kept.
C24_Witness ==
  /\ pc = "planned"
  /\ config.label_prefix = "cmdb/"
  /\ \E t \in 1..Len(hosts_to_modify) :
       /\ NamedOnce(hosts_to_modify[t][1])
       /\ DOMAIN RemoteLabels(hosts_to_modify[t][1]) = {"site", "cmdb/site", "manual"}
       /\ RemoteLabels(hosts_to_modify[t][1])["cmdb/site"] = "dc"
       /\ hosts_to_modify[t][2].labels["cmdb/site"] = "lab"
       /\ hosts_to_modify[t][2].labels["site"] = "dc"
       /\ hosts_to_modify[t][2].labels["manual"] = "yes"

\* The names the record has a value for: its attr_ fields, its tags, and
\* ipaddress when the IP is synchronised and the record has one.
ImportedAttributeNames(record) ==
  DOMAIN get_host_attributes(record)
    \cup DOMAIN ImportedTags(cmk_tags, record)
    \cup (IF update_ips /\ ImportedIp(record) # None THEN {"ipaddress"} ELSE {})

\* C25: an attribute or label of a managed remote host that the import does
\* not have is never removed: its absence alone causes no ToModify tuple, no
\* name other than "ipaddress" is ever listed to unset, and every tuple of the
\* host carries it with its value.
C25_AbsentAttributeKept ==
  /\ \A t \in 1..Len(hosts_to_modify) :
       LET h == hosts_to_modify[t][1]
       IN /\ Range(hosts_to_modify[t][3]) \subseteq {"ipaddress"}
          /\ (h \in ManagedBefore /\ NamedOnce(h)) =>
               /\ \A k \in DOMAIN remote_hosts[h].attributes
                             \ (ImportedAttributeNames(RecordOf(h)) \cup {"labels"}) :
                    /\ k \in DOMAIN hosts_to_modify[t][2]
                    /\ hosts_to_modify[t][2][k] = remote_hosts[h].attributes[k]
               /\ \A l \in DOMAIN RemoteLabels(h) \ DOMAIN PrefixedLabels(RecordOf(h)) :
                    /\ l \in DOMAIN hosts_to_modify[t][2].labels
                    /\ hosts_to_modify[t][2].labels[l] = RemoteLabels(h)[l]
  /\ pc = "planned" =>
       \A h \in ManagedBefore \cap HostsOf(hosts_to_modify) :
         NamedOnce(h) =>
           \/ ReasonBesidesIp(h, RecordOf(h))
           \/ (update_ips /\ RemoteIp(h) # ImportedIp(RecordOf(h)))

\* One managed host keeps attributes the import does not have and gets no
\* tuple; another gets a tuple that carries such an attribute and such labels.
C25_Witness ==
  /\ pc = "planned"
  /\ \E h \in ManagedBefore \ HostsOf(hosts_to_modify) :
       /\ NamedOnce(h)
       /\ PassesHostFilters(h)
       /\ DOMAIN remote_hosts[h].attributes
            \ (ImportedAttributeNames(RecordOf(h)) \cup BUILTIN_ATTRIBUTES) # {}
  /\ \E t \in 1..Len(hosts_to_modify) :
       /\ hosts_to_modify[t][1] \in ManagedBefore
       /\ NamedOnce(hosts_to_modify[t][1])
       /\ "alias" \in DOMAIN hosts_to_modify[t][2]
       /\ "alias" \notin ImportedAttributeNames(RecordOf(hosts_to_modify[t][1]))
       /\ "manual" \in DOMAIN hosts_to_modify[t][2].labels

(***************************************************************************)
(* Properties of the waits                                                 *)
(***************************************************************************)
\* The hosts the site reported as created, in the order of its answers.
CreatedByCalls ==
  LET answered == Answered(GroupsOf("add_hosts"))
  IN Flatten([g \in 1..Len(answered) |-> answered[g].ret.succeeded_hosts])

CreationOver == pc \in {"wait_discovery", "modify", "delete", "move", "updated", "done"}

\* C26: after add_hosts the bulk discovery is started exactly when service
\* discovery is enabled and a host was created, with exactly the created
\* hostnames; the wait for it ends at the timeout at the latest, and a
\* discovery that is still running then does not end the cycle, which goes on
\* with the modifications.
C26_DiscoveryOfCreatedHosts ==
  /\ Len(CallsOf({"discover_services"})) <= 1
  /\ \A i \in 1..Len(calls) :
       calls[i].op = "discover_services" =>
         /\ config.use_service_discovery
         /\ calls[i].arg # <<>>
         /\ calls[i].arg = CreatedByCalls
         /\ \A j \in 1..Len(calls) : calls[j].op = "add_hosts" => j < i
  /\ (CreationOver /\ config.use_service_discovery /\ CreatedByCalls # <<>>) =>
       CallsOf({"discover_services"}) # <<>>
  /\ pc = "wait_discovery" =>
       /\ calls[Len(calls)].op = "discover_services"
       /\ elapsed \div 1000 <= discovery_timeout
  /\ (calls # <<>> /\ calls[Len(calls)].op = "is_discovery_running") =>
       pc \in {"modify", "delete", "move", "updated", "done"}

\* The discovery of a created host was still running at the end of the wait,
\* and the cycle went on to modify another host and came to its end.
C26_Witness ==
  /\ pc = "done"
  /\ \E i, j, k \in 1..Len(calls) :
       /\ i < j /\ j < k
       /\ calls[i].op = "discover_services"
       /\ calls[j].op = "is_discovery_running"
       /\ calls[j].ret.is_active
       /\ calls[k].op = "modify_hosts"

WaitingForFolders == pc \in {"wait_folders_of_move", "wait_create"}

\* _wait_for_folders has just returned.
WaitedForFolders ==
  /\ pc \in {"folders_of_move", "create"}
  /\ Len(calls) >= 2
  /\ calls[Len(calls)].op = "get_folders"
  /\ calls[Len(calls) - 1].op = "activate_changes"

FoldersStillMissing == \E i \in 1..Len(folders) : folders[i] \notin remote_folders

\* C27: the wait for the requested folders starts after add_folder and an
\* activation, lasts no longer than the timeout, and when it ends with
\* folders still missing the timeout is logged and the cycle goes on to the
\* hosts.
C27_FolderWaitLogsTimeout ==
  /\ WaitingForFolders =>
       /\ calls[Len(calls)].op = "activate_changes"
       /\ calls[Len(calls)].by = "folders"
       /\ \A i \in 1..Len(folders) :
            \E k \in 1..Len(calls) : calls[k].op = "add_folder" /\ calls[k].arg = folders[i]
       /\ elapsed <= timeout + interval
  /\ (WaitedForFolders /\ FoldersStillMissing) => "folders timeout" \in Range(log)


(***************************************************************************)
(* Properties of add_folder                                                *)
(***************************************************************************)
Posts == {k \in 1..Len(calls) : calls[k].op = "post"}

\* C28: add_folder retries on one level only: it creates the parent once,
\* resubmits the folder once and returns without raising; a 400 that does
\* not name the parent is dropped without a retry; whatever the site
\* answers, the call returns after a bounded number of requests.
C28_SingleLevelRetry ==
  /\ pc # "raised"
  /\ Len(folders) <= 2
  /\ Cardinality(Posts) <= 3
  /\ (pc = "returned" /\ calls[1].ret # 400) => Cardinality(Posts) = 1


(***************************************************************************)
(* Properties of the activation answers                                    *)
(***************************************************************************)
NothingToActivate(call) ==
  call.op = "activate_changes" /\ Contains(call.ret.answer, "no changes to activate")

RefusedActivation(call) ==
  call.op = "activate_changes" /\ call.ret.answer # None /\ ~NothingToActivate(call)

C30_BatchesMatchRemote ==
  /\ \A h \in HostsOf(hosts_to_create) : h \notin DOMAIN cmk_hosts
  /\ \A h \in HostsOf(hosts_to_modify) \cup HostsOf(hosts_to_move) :
       /\ h \in DOMAIN cmk_hosts
       /\ ExistsAsOurs(h)
       /\ h \in ImportedNames
       /\ PassesHostFilters(h)

C30_Witness ==
  /\ pc = "planned"
  /\ hosts_to_create # <<>>
  /\ hosts_to_modify # <<>>
  /\ hosts_to_move # <<>>
  /\ HostsOf(hosts_to_modify) \cap OvertakableBefore # {}
  /\ config.host_filters # <<>>

====
